---- MODULE Spec2Model ----
(***************************************************************************)
(* Model of the conversation analyzer: the thread linearizer               *)
(* (message_ordering.py), the turn and cost accrual engine (analyzers.py,  *)
(* tokenizers.py, config.py), the batch loop of main (analyzer.py) and the *)
(* summary of the report (reporting.py).                                   *)
(*                                                                         *)
(* Representation.                                                         *)
(*   - Python None is the string None; an optional message is a sequence   *)
(*     of length 0 (no message) or 1 (the message).                        *)
(*   - A text is represented by the number of tokens the message's own     *)
(*     tokenizer counts for it (0 for the empty string).                   *)
(*   - What the encoder does on the non-empty texts of a message (return   *)
(*     the tokens, raise ValueError, raise another exception) is a field   *)
(*     of the message; an exception that leaves the analysis is kept in    *)
(*     result and pc is "raised".                                          *)
(*   - Token totals are kept in units of 1/TokenUnit token, so that the    *)
(*     thought multiplier 1.2 = ThoughtMultNum / TokenUnit is exact.       *)
(*   - A dict whose order matters (the cost table) is a sequence of        *)
(*     [key, rates] records in insertion order; rates are in cents per     *)
(*     million tokens, and costs in units in which half a rate is exact.   *)
(*   - The fields a result only copies from the conversation (title,       *)
(*     create_time_ts, update_time_ts) are left out.                       *)
(***************************************************************************)
EXTENDS Integers, Sequences, FiniteSets, TLC

VARIABLES
    mapping,                \* conversation["mapping"]: node id -> node
    costs_config,           \* the cost table passed to the analysis
    mode,                   \* "detailed" or "simple"
    pc,                     \* position in the code
    root_id,                \* message_ordering.py: root_id
    current_id,             \* message_ordering.py: current_id
    ordered_message_ids,    \* message_ordering.py: ordered_message_ids
    visited_ids,            \* message_ordering.py: visited_ids
    real_turns_count,       \* analyzers.py: real_turns_count
    i,                      \* analyzers.py: number of loop iterations done
    history_for_inputs,     \* analyzers.py: history_for_inputs
    current_turn_index,     \* analyzers.py: current_turn_index
    input_cost_rate,        \* analyzers.py: input_cost_rate of the last assistant message
    processed_turns,        \* analyzers.py: processed_turns
    conversation_total_input_tokens,
    conversation_total_output_tokens,
    conversation_total_cost,
    assistant_message_count_in_convo,
    result,                 \* the returned dict, or the exception raised;
                            \* <<>> while the analysis runs
    conversations_data,     \* analyzer.py: the conversations loaded
    filter_model,           \* analyzer.py: the model slug to filter by
    filtered_convs,         \* analyzer.py: the conversations of the batch
    all_analysis_results,   \* analyzer.py: all_analysis_results
    report                  \* analyzer.py: report; <<>> before it is made

vars == <<mapping, costs_config, mode, pc, root_id, current_id,
          ordered_message_ids, visited_ids, real_turns_count, i,
          history_for_inputs, current_turn_index, input_cost_rate,
          processed_turns, conversation_total_input_tokens,
          conversation_total_output_tokens, conversation_total_cost,
          assistant_message_count_in_convo, result,
          conversations_data, filter_model,
          filtered_convs, all_analysis_results, report>>

batchVars == <<conversations_data, filter_model, filtered_convs,
               all_analysis_results, report>>

linVars == <<root_id, current_id, ordered_message_ids, visited_ids>>

anVars == <<real_turns_count, i, history_for_inputs, current_turn_index,
            input_cost_rate, processed_turns, conversation_total_input_tokens,
            conversation_total_output_tokens, conversation_total_cost,
            assistant_message_count_in_convo, result>>

(***************************************************************************)
(* Bounds of the model.                                                    *)
(***************************************************************************)
MaxChildren == 2        \* longest children list of a node
MaxMsgs == 3            \* longest thread of the analysed conversations

(***************************************************************************)
(* Identifiers.                                                            *)
(***************************************************************************)
None == "None"
CCR == "client-created-root"
G1 == "0a1b2c3d-0000-4000-8000-000000000001"

\* The node ids of the structural mappings, in a fixed order.
IdOrder == <<CCR, "root", G1>>

Ids == {IdOrder[k] : k \in DOMAIN IdOrder}

Range(s) == {s[k] : k \in DOMAIN s}

SeqSum(s) == LET RECURSIVE Go(_)
                 Go(k) == IF k = 0 THEN 0 ELSE s[k] + Go(k - 1)
             IN Go(Len(s))

(***************************************************************************)
(* Dict access: mapping.get(id, {}) and its fields.                        *)
(***************************************************************************)
Keys(m) == DOMAIN m

\* conversation_mapping.get(id, {}).get("message"), as a truth value
HasMessage(m, id) == id \in Keys(m) /\ m[id].message # <<>>

\* conversation_mapping.get(id, {}).get("children", [])
ChildrenOf(m, id) == IF id \in Keys(m) THEN m[id].children ELSE <<>>

MessageOf(m, id) == m[id].message[1]

(***************************************************************************)
(* get_message_chronological_order: root resolution.                       *)
(***************************************************************************)
\* r.count("-")
Hyphens(r) == CASE r = CCR -> 2
                [] r = G1 -> 4
                [] OTHER -> 0

IsGuidLikeNever(r) == FALSE

\* len(r) == 36 and r.count("-") == 4
IsGuidLike(r) == Len(r) = 36 /\ Hyphens(r) = 4

child_ids_with_valid_parents(m) ==
    {id \in Keys(m) : m[id].parent # None /\ m[id].parent \in Keys(m)}

possible_roots(m) == Keys(m) \ child_ids_with_valid_parents(m)

non_guid_roots(m) == {r \in possible_roots(m) : ~IsGuidLike(r)}

\* The ids the code can pick as root_id. possible_roots is a list made from
\* a set of strings, so its first element is any of its members.
RootChoices(m) ==
    IF CCR \in Keys(m) THEN {CCR}
    ELSE IF non_guid_roots(m) # {} THEN non_guid_roots(m)
    ELSE possible_roots(m)

(***************************************************************************)
(* get_message_chronological_order: the walk.                              *)
(***************************************************************************)
NextIdLast(children) == children[Len(children)]

\* next_id = children[0]
NextId(children) == children[1]

AlreadyVisitedNever(next_id, visited) == FALSE

\* if next_id in visited_ids: break
AlreadyVisited(next_id, visited) == next_id \in visited

AppendIfMessageAlways(m, ordered, id) == Append(ordered, id)

\* if conversation_mapping.get(id, {}).get("message"): ordered.append(id)
AppendIfMessage(m, ordered, id) ==
    IF HasMessage(m, id) THEN Append(ordered, id) ELSE ordered

\* lines 9-37
ResolveRoot ==
    /\ pc = "resolve"
    /\ IF Keys(mapping) = {} \/ RootChoices(mapping) = {}
       THEN /\ pc' = "linearized"
            /\ UNCHANGED root_id
       ELSE /\ root_id' \in RootChoices(mapping)
            /\ pc' = "start"
    /\ UNCHANGED <<batchVars, mapping, costs_config, mode, current_id,
                   ordered_message_ids, visited_ids, anVars>>

LastChildOfRoot(children_of_root) == children_of_root[Len(children_of_root)]

\* line 78: current_id = children_of_root[0]
FirstChildOfRoot(children_of_root) == children_of_root[1]

\* lines 39-96
StartWalk ==
    /\ pc = "start"
    /\ IF root_id = CCR
       THEN IF ChildrenOf(mapping, root_id) = <<>>
            THEN /\ pc' = "linearized"
                 /\ UNCHANGED <<current_id, ordered_message_ids, visited_ids>>
            ELSE LET first == FirstChildOfRoot(ChildrenOf(mapping, root_id)) IN
                 /\ current_id' = first
                 /\ ordered_message_ids' =
                        AppendIfMessage(mapping, ordered_message_ids, first)
                 /\ visited_ids' = IF HasMessage(mapping, first)
                                   THEN visited_ids \cup {first}
                                   ELSE visited_ids
                 /\ pc' = "walk"
       ELSE /\ current_id' = root_id
            \* the root is appended at line 81; at line 92 it is then
            \* already in ordered_message_ids, so it is not marked visited
            /\ ordered_message_ids' =
                   AppendIfMessage(mapping, ordered_message_ids, root_id)
            /\ visited_ids' = visited_ids
            /\ pc' = "walk"
    /\ UNCHANGED <<batchVars, mapping, costs_config, mode, root_id, anVars>>

\* The loop continues from current_id: the node exists, has children, and
\* its first child has not been visited.
WalkContinues ==
    /\ current_id \in Keys(mapping)
    /\ ChildrenOf(mapping, current_id) # <<>>
    /\ ~AlreadyVisited(NextId(ChildrenOf(mapping, current_id)), visited_ids)

\* lines 98-116: one iteration that moves to the first child
WalkStep ==
    /\ pc = "walk"
    /\ WalkContinues
    \* The output never grows past this length while the loop continues
    \* (C3_WalkTerminates would fail if it did): the guard only keeps the
    \* state space finite when the cycle check is altered.
    /\ Len(ordered_message_ids) <= Cardinality(Keys(mapping)) + 1
    /\ LET next_id == NextId(ChildrenOf(mapping, current_id)) IN
       /\ ordered_message_ids' =
              AppendIfMessage(mapping, ordered_message_ids, next_id)
       /\ visited_ids' = visited_ids \cup {next_id}
       /\ current_id' = next_id
    /\ UNCHANGED <<batchVars, mapping, costs_config, mode, pc, root_id, anVars>>

\* lines 98-120: the iteration that leaves the loop, and the return
WalkEnd ==
    /\ pc = "walk"
    /\ ~WalkContinues
    /\ pc' = "linearized"
    /\ UNCHANGED <<batchVars, mapping, costs_config, mode, linVars, anVars>>

NextLin == ResolveRoot \/ StartWalk \/ WalkStep \/ WalkEnd

(***************************************************************************)
(* Inputs of the linearizer: structural mappings over Ids.                 *)
(***************************************************************************)
PlainMessage ==
    [role |-> "user", end_turn |-> FALSE, model_slug |-> None,
     default_model_slug |-> None, finish_details |-> FALSE,
     recipient |-> "all", encoder |-> "ok",
     content |-> [content_type |-> "text", parts |-> 1, thoughts |-> <<>>,
                  user_profile |-> 0, user_instructions |-> 0]]

IdIndex(a) == CHOOSE k \in DOMAIN IdOrder : IdOrder[k] = a

\* k ids in the order of IdOrder, cyclically, starting at a
Rot(a, k) ==
    [j \in 1..k |-> IdOrder[((IdIndex(a) + j - 2) % Len(IdOrder)) + 1]]

ChildLists == {<<>>} \cup {Rot(a, k) : a \in Ids, k \in 1..MaxChildren}

NonEmptyKeySets == (SUBSET Ids) \ {{}}

\* Mappings with any children lists and placeholder nodes, no parent links,
\* and messages among msgs.
MappingsOver(msgs) ==
    UNION {[K -> [parent : {None}, children : ChildLists,
                  message : {<<>>} \cup {<<x>> : x \in msgs}]] :
              K \in NonEmptyKeySets}

WalkMappings == MappingsOver({PlainMessage})

\* The parent link that agrees with the children lists, if there is one.
DerivedParent(m, n) ==
    LET ps == {p \in Keys(m) : n \in Range(m[p].children)}
    IN IF ps = {} THEN None ELSE CHOOSE p \in ps : TRUE

WithParents(m) ==
    [n \in Keys(m) |-> [m[n] EXCEPT !.parent = DerivedParent(m, n)]]

\* Mappings with any parent links, at most one child per node.
RootMappings ==
    UNION {[K -> [parent : {None} \cup Ids,
                  children : {c \in ChildLists : Len(c) <= 1},
                  message : {<<PlainMessage>>}]] : K \in NonEmptyKeySets}

EmptyMapping == [n \in {} |-> None]

LinMappings ==
    {EmptyMapping} \cup WalkMappings \cup {WithParents(m) : m \in WalkMappings}
    \cup RootMappings

InitLocals ==
    /\ root_id = None
    /\ current_id = None
    /\ ordered_message_ids = <<>>
    /\ visited_ids = {}
    /\ real_turns_count = 0
    /\ i = 0
    /\ history_for_inputs = <<>>
    /\ current_turn_index = 0
    /\ input_cost_rate = 0
    /\ processed_turns = <<>>
    /\ conversation_total_input_tokens = 0
    /\ conversation_total_output_tokens = 0
    /\ conversation_total_cost = 0
    /\ assistant_message_count_in_convo = 0
    /\ result = <<>>

\* no batch: the function is called on its own
NoBatch ==
    /\ conversations_data = <<>>
    /\ filter_model = None
    /\ filtered_convs = <<>>
    /\ all_analysis_results = <<>>
    /\ report = <<>>

\* get_message_chronological_order called on its own
InitLin ==
    /\ mapping \in LinMappings
    /\ costs_config = <<>>
    /\ mode = "detailed"
    /\ pc = "resolve"
    /\ InitLocals
    /\ NoBatch

SpecLin == InitLin /\ [][NextLin]_vars

\* The walk is a sequential loop: a step that can be taken is taken.
FairLin == SpecLin /\ WF_vars(NextLin)

(***************************************************************************)
(* config.py                                                               *)
(***************************************************************************)
TokenUnit == 5          \* token totals are counted in fifths of a token

\* THOUGHT_CONTENT_MULTIPLIER = 1.2 = ThoughtMultNum / TokenUnit
ThoughtMultNum == 6

InKey == "input_cost_per_million_tokens"
OutKey == "output_cost_per_million_tokens"

\* A rate entry; rates are in cents per million tokens.
Rates(in, out) == (InKey :> in) @@ (OutKey :> out)

EmptyDict == <<>>

DEFAULT_MODEL_COSTS ==
    << [key |-> "gpt-4o",     rates |-> Rates(250, 1000)],
       [key |-> "research",   rates |-> Rates(1000, 4000)],
       [key |-> "o3",         rates |-> Rates(1000, 4000)],
       [key |-> "o1-pro",     rates |-> Rates(15000, 60000)],
       [key |-> "gpt-4-5",    rates |-> Rates(7500, 15000)],
       [key |-> "o1",         rates |-> Rates(1500, 6000)],
       [key |-> "o1-preview", rates |-> Rates(1500, 6000)] >>

\* dict.get(key): the entry, or the falsy EmptyDict when the key is absent
Get(table, key) ==
    IF \E k \in DOMAIN table : table[k].key = key
    THEN table[CHOOSE k \in DOMAIN table : table[k].key = key].rates
    ELSE EmptyDict

HasKey(table, key) == \E k \in DOMAIN table : table[k].key = key

\* truth value of a dict
Truthy(d) == DOMAIN d # {}

(***************************************************************************)
(* tokenizers.py                                                           *)
(***************************************************************************)
\* What tokenizer.encode does on the non-empty texts of a message: it
\* returns the tokens, raises ValueError, or raises any other exception.
Encoders == {"ok", "ValueError", "Exception"}

\* count_tokens: a text is represented by its token count; the empty text
\* counts 0 without a call of the encoder, and a ValueError of the encoder
\* is caught and counted 0
count_tokens(text, encoder) ==
    IF text = 0 THEN 0
    ELSE IF encoder = "ValueError" THEN 0
    ELSE text

\* count_tokens lets every exception that is not a ValueError through
CountRaises(text, encoder) == text # 0 /\ encoder = "Exception"

\* one entry of content["thoughts"]: the summary as it is, the content
\* times THOUGHT_CONTENT_MULTIPLIER
ThoughtTokens(thought, encoder) ==
    (IF thought.summary # 0
     THEN TokenUnit * count_tokens(thought.summary, encoder) ELSE 0)
    + (IF thought.content # 0
       THEN ThoughtMultNum * count_tokens(thought.content, encoder) ELSE 0)

CountsThoughtsAlways(content_type, count_thoughts) ==
    content_type = "thoughts"

\* line 77: the thought entries are counted only when count_thoughts is set
CountsThoughts(content_type, count_thoughts) ==
    content_type = "thoughts" /\ count_thoughts

ExtractTokensAnyParts(message, count_thoughts) ==
    LET content == message.content
        encoder == message.encoder
    IN
    CASE CountsThoughts(content.content_type, count_thoughts) ->
            SeqSum([k \in DOMAIN content.thoughts |->
                        ThoughtTokens(content.thoughts[k], encoder)])
      [] content.content_type = "user_editable_context" ->
            TokenUnit * count_tokens(content.user_profile, encoder)
                + TokenUnit * count_tokens(content.user_instructions, encoder)
      [] OTHER -> TokenUnit * count_tokens(content.parts, encoder)

\* extract_text_from_message: total_tokens of a node that has a message,
\* in units of 1/TokenUnit token
ExtractTokens(message, count_thoughts) ==
    LET content == message.content
        encoder == message.encoder
    IN
    CASE content.content_type = "text" ->
            TokenUnit * count_tokens(content.parts, encoder)
      [] CountsThoughts(content.content_type, count_thoughts) ->
            SeqSum([k \in DOMAIN content.thoughts |->
                        ThoughtTokens(content.thoughts[k], encoder)])
      [] content.content_type = "user_editable_context" ->
            TokenUnit * count_tokens(content.user_profile, encoder)
                + TokenUnit * count_tokens(content.user_instructions, encoder)
      [] OTHER -> 0

\* extract_text_from_message raises what one of its count_tokens calls
\* raises
ExtractRaises(message, count_thoughts) ==
    LET content == message.content
        encoder == message.encoder
    IN
    CASE content.content_type = "text" ->
            CountRaises(content.parts, encoder)
      [] CountsThoughts(content.content_type, count_thoughts) ->
            \E k \in DOMAIN content.thoughts :
                \/ CountRaises(content.thoughts[k].summary, encoder)
                \/ CountRaises(content.thoughts[k].content, encoder)
      [] content.content_type = "user_editable_context" ->
            \/ CountRaises(content.user_profile, encoder)
            \/ CountRaises(content.user_instructions, encoder)
      [] OTHER -> FALSE

\* extract_text_from_message(msg_data, count_thoughts)[1]
extract_text_from_message(m, id, count_thoughts) ==
    IF ~HasMessage(m, id) THEN 0
    ELSE ExtractTokens(MessageOf(m, id), count_thoughts)

(***************************************************************************)
(* analyzers.py                                                            *)
(***************************************************************************)
\* a value Python takes as false: None or the empty string
Falsy(x) == x \in {None, ""}

identify_model_default_first(message) ==
    IF ~Falsy(message.default_model_slug)
    THEN [kind |-> "default", name |-> message.default_model_slug]
    ELSE IF ~Falsy(message.model_slug)
    THEN [kind |-> "slug", name |-> message.model_slug]
    ELSE IF message.finish_details
    THEN [kind |-> "Unknown API Model", name |-> None]
    ELSE IF ~Falsy(message.recipient) /\ message.recipient # "all"
    THEN [kind |-> "Tool", name |-> message.recipient]
    ELSE [kind |-> "N/A", name |-> None]

\* identify_model_from_metadata: the label as a pair of its kind and name;
\* the kind "default" stands for the suffix " (default)", the kind "Tool"
\* for the prefix "Tool: "
identify_model_from_metadata(message) ==
    IF ~Falsy(message.model_slug)
    THEN [kind |-> "slug", name |-> message.model_slug]
    ELSE IF ~Falsy(message.default_model_slug)
    THEN [kind |-> "default", name |-> message.default_model_slug]
    ELSE IF message.finish_details
    THEN [kind |-> "Unknown API Model", name |-> None]
    ELSE IF ~Falsy(message.recipient) /\ message.recipient # "all"
    THEN [kind |-> "Tool", name |-> message.recipient]
    ELSE [kind |-> "N/A", name |-> None]

EndsTurnAssistantOnly(m, id) ==
    HasMessage(m, id) /\ MessageOf(m, id).end_turn = TRUE
        /\ MessageOf(m, id).role = "assistant"

\* message.get("end_turn") is True
EndsTurn(m, id) == HasMessage(m, id) /\ MessageOf(m, id).end_turn = TRUE

RECURSIVE CountTurns(_, _, _)
CountTurns(m, ids, k) ==
    IF k = 0 THEN 0
    ELSE CountTurns(m, ids, k - 1) + (IF EndsTurn(m, ids[k]) THEN 1 ELSE 0)

count_real_turns_of_assistant(m, ids) ==
    Cardinality({k \in DOMAIN ids :
                    EndsTurn(m, ids[k]) /\ MessageOf(m, ids[k]).role = "assistant"})

\* count_real_turns(mapping, ordered_message_ids)
count_real_turns(m, ids) == CountTurns(m, ids, Len(ids))

\* lines 226-234: the rate entry charged for a message
current_model_costs(table, model_slug) ==
    LET first == IF HasKey(table, model_slug) THEN Get(table, model_slug)
                 ELSE Get(table, "o3")
    IN IF Truthy(first) THEN first
       ELSE IF table # <<>> THEN table[1].rates
       ELSE Get(DEFAULT_MODEL_COSTS, "o3")

\* A rate in units of half a cent, in which the halved rate is exact.
HalfUnits(rate) == 2 * rate

DiscountedRatePerTurn(rate, turn_index) ==
    IF turn_index > 1 THEN rate \div 4
    ELSE IF turn_index > 0 THEN rate \div 2 ELSE rate

\* lines 276-280: input_cost_rate, halved after the first turn
DiscountedRate(rate, turn_index) ==
    IF turn_index > 0 THEN rate \div 2 ELSE rate

StoredRatesHalved(table, model_slug, rate) ==
    LET key == IF HasKey(table, model_slug) THEN model_slug ELSE "o3" IN
    [k \in DOMAIN table |->
        IF table[k].key = key /\ InKey \in DOMAIN table[k].rates
        THEN [table[k] EXCEPT !.rates = [@ EXCEPT ![InKey] = rate \div 2]]
        ELSE table[k]]

\* lines 276-280: input_cost_rate is a local float; halving it (rate is the
\* halved rate in HalfUnits) assigns the local name and leaves the entry of
\* the cost table as it is
StoredRates(table, model_slug, rate) == table

InputTokensPreviousOnly(history) ==
    IF Len(history) < 2 THEN 0 ELSE history[Len(history) - 1][3]

InputTokensWithCurrent(history) ==
    SeqSum([j \in 1..Len(history) |-> history[j][3]])

\* lines 270-274: the token counts of all history entries but the last
InputTokens(history) ==
    SeqSum([j \in 1..(Len(history) - 1) |-> history[j][3]])

NextTurnIndexEveryMessage(turn_index, is_turn_end) == turn_index + 1

\* lines 309-310
NextTurnIndex(turn_index, is_turn_end) ==
    IF is_turn_end THEN turn_index + 1 ELSE turn_index

IsAssistantAny(author_role) == TRUE

\* author_role == "assistant"
IsAssistant(author_role) == author_role = "assistant"

SimpleCountsThoughtsNever(role) == FALSE

\* lines 113-125: simple mode counts the thoughts of assistant messages only
SimpleCountsThoughts(role) == role = "assistant"

SimpleAddsOtherToUser(total_role, role) ==
    role = total_role
        \/ (total_role = "user" /\ role \notin {"assistant", "system"})

\* lines 113-125: the if/elif chain on the role; a message adds to the
\* total of its own role, and to none when its role has no branch
SimpleAddsTo(total_role, role) == role = total_role

\* lines 102-128: a per-role total of simple mode
RECURSIVE SimpleTokens(_, _, _, _)
SimpleTokens(m, ids, role, k) ==
    IF k = 0 THEN 0
    ELSE SimpleTokens(m, ids, role, k - 1)
         + (IF HasMessage(m, ids[k])
                /\ SimpleAddsTo(role, MessageOf(m, ids[k]).role)
            THEN extract_text_from_message(m, ids[k], SimpleCountsThoughts(role))
            ELSE 0)

SimpleRateChoiceFirst(table) ==
    IF table # <<>> /\ Truthy(table[1].rates)
    THEN [key |-> table[1].key, rates |-> table[1].rates]
    ELSE [key |-> "o3", rates |-> Get(DEFAULT_MODEL_COSTS, "o3")]

\* lines 134-149: the key and the rate entry simple mode charges
SimpleRateChoice(table) ==
    IF Truthy(Get(table, "o3")) THEN [key |-> "o3", rates |-> Get(table, "o3")]
    ELSE IF table # <<>> /\ Truthy(table[1].rates)
    THEN [key |-> table[1].key, rates |-> table[1].rates]
    ELSE [key |-> "o3", rates |-> Get(DEFAULT_MODEL_COSTS, "o3")]

RatesComplete(rates) == InKey \in DOMAIN rates /\ OutKey \in DOMAIN rates

message_count_distinct(ids) == Cardinality(Range(ids))

\* lines 177 and 322: "message_count": len(ordered_message_ids)
message_count(ids) == Len(ids)

\* lines 75-87
AnalyzeBegin ==
    /\ pc = "analyze"
    /\ IF Keys(mapping) = {}
       THEN /\ result' = [error |-> "No message mapping found", mode |-> mode]
            /\ pc' = "returned"
       ELSE /\ pc' = "resolve"
            /\ UNCHANGED result
    /\ UNCHANGED <<batchVars, mapping, costs_config, mode,
                   linVars, real_turns_count, i,
                   history_for_inputs, current_turn_index, input_cost_rate,
                   processed_turns, conversation_total_input_tokens,
                   conversation_total_output_tokens, conversation_total_cost,
                   assistant_message_count_in_convo>>

\* lines 89-100
CheckOrder ==
    /\ pc = "linearized"
    /\ IF ordered_message_ids = <<>>
       THEN /\ result' = [error |-> "Could not determine message order or no messages",
                          mode |-> mode]
            /\ pc' = "returned"
            /\ UNCHANGED real_turns_count
       ELSE /\ real_turns_count' = count_real_turns(mapping, ordered_message_ids)
            /\ pc' = mode
            /\ UNCHANGED result
    /\ UNCHANGED <<batchVars, mapping, costs_config, mode, linVars, i,
                   history_for_inputs, current_turn_index, input_cost_rate,
                   processed_turns, conversation_total_input_tokens,
                   conversation_total_output_tokens, conversation_total_cost,
                   assistant_message_count_in_convo>>

\* lines 107-122: some message whose tokens simple mode counts makes the
\* extractor raise
SimpleRaises(m, ids) ==
    \E k \in DOMAIN ids :
        /\ HasMessage(m, ids[k])
        /\ MessageOf(m, ids[k]).role \in {"user", "assistant", "system"}
        /\ ExtractRaises(MessageOf(m, ids[k]),
                         SimpleCountsThoughts(MessageOf(m, ids[k]).role))

\* lines 102-187
SimpleMode ==
    /\ pc = "simple"
    /\ IF SimpleRaises(mapping, ordered_message_ids)
       THEN /\ result' = [raised |-> "Exception"]
            /\ pc' = "raised"
       ELSE
       LET user == SimpleTokens(mapping, ordered_message_ids, "user",
                                Len(ordered_message_ids))
           assistant == SimpleTokens(mapping, ordered_message_ids, "assistant",
                                     Len(ordered_message_ids))
           system == SimpleTokens(mapping, ordered_message_ids, "system",
                                  Len(ordered_message_ids))
           choice == SimpleRateChoice(costs_config)
           ok == RatesComplete(choice.rates)
           in_cost == IF ok THEN (user + system) * HalfUnits(choice.rates[InKey])
                      ELSE 0
           out_cost == IF ok THEN assistant * HalfUnits(choice.rates[OutKey])
                       ELSE 0
       IN
       /\ result' =
            [mode |-> "simple",
             real_turns_count |-> real_turns_count,
             message_count |-> message_count(ordered_message_ids),
             simple_total_user_tokens |-> user,
             simple_total_assistant_tokens |-> assistant,
             simple_total_system_tokens |-> system,
             simple_total_input_tokens |-> user + system,
             simple_total_output_tokens |-> assistant,
             simple_input_cost |-> in_cost,
             simple_output_cost |-> out_cost,
             simple_total_cost |-> in_cost + out_cost,
             simple_cost_model_key |->
                 [key |-> choice.key, rates_not_found |-> ~ok]]
       /\ pc' = "returned"
    /\ UNCHANGED <<batchVars, mapping, costs_config, mode,
                   linVars, real_turns_count, i,
                   history_for_inputs, current_turn_index, input_cost_rate,
                   processed_turns, conversation_total_input_tokens,
                   conversation_total_output_tokens, conversation_total_cost,
                   assistant_message_count_in_convo>>

MsgCostOutputOnly(input_cost, output_cost) == output_cost

\* line 282: msg_cost
MsgCost(input_cost, output_cost) == input_cost + output_cost

\* lines 213-310: one iteration of the detailed loop, on the message at
\* position i + 1
DetailedStep ==
    /\ pc = "detailed"
    /\ i < Len(ordered_message_ids)
    /\ LET msg_id == ordered_message_ids[i + 1] IN
       IF ~HasMessage(mapping, msg_id)
       THEN /\ i' = i + 1
            /\ UNCHANGED <<pc, history_for_inputs, current_turn_index,
                           input_cost_rate, processed_turns,
                           conversation_total_input_tokens,
                           conversation_total_output_tokens,
                           conversation_total_cost,
                           assistant_message_count_in_convo, result,
                           costs_config>>
       ELSE IF \/ ExtractRaises(MessageOf(mapping, msg_id), TRUE)
               \/ ExtractRaises(MessageOf(mapping, msg_id), FALSE)
       THEN \* the exception of the encoder at line 238 or 241
            /\ result' = [raised |-> "Exception"]
            /\ pc' = "raised"
            /\ UNCHANGED <<i, history_for_inputs, current_turn_index,
                           input_cost_rate, processed_turns,
                           conversation_total_input_tokens,
                           conversation_total_output_tokens,
                           conversation_total_cost,
                           assistant_message_count_in_convo, costs_config>>
       ELSE
       LET message == MessageOf(mapping, msg_id)
           author_role == message.role
           rates == current_model_costs(costs_config, message.model_slug)
           output_tokens == extract_text_from_message(mapping, msg_id, TRUE)
           tokens_for_history == extract_text_from_message(mapping, msg_id, FALSE)
           history == Append(history_for_inputs,
                             <<msg_id, author_role, tokens_for_history>>)
           is_turn_end == EndsTurn(mapping, msg_id)
       IN
       /\ history_for_inputs' = history
       /\ IF IsAssistant(author_role)
          THEN /\ assistant_message_count_in_convo' =
                      assistant_message_count_in_convo + 1
               /\ IF ~RatesComplete(rates)
                  THEN \* KeyError at line 264 or 276
                       /\ result' = [raised |-> "KeyError"]
                       /\ pc' = "raised"
                       /\ UNCHANGED <<i, current_turn_index, input_cost_rate,
                                      processed_turns,
                                      conversation_total_input_tokens,
                                      conversation_total_output_tokens,
                                      conversation_total_cost, costs_config>>
                  ELSE
                  LET output_cost == output_tokens * HalfUnits(rates[OutKey])
                      input_tokens == InputTokens(history)
                      rate == DiscountedRate(HalfUnits(rates[InKey]),
                                             current_turn_index)
                      input_cost == input_tokens * rate
                      msg_cost == MsgCost(input_cost, output_cost)
                  IN
                  /\ input_cost_rate' = rate
                  /\ costs_config' =
                         StoredRates(costs_config, message.model_slug, rate)
                  /\ conversation_total_output_tokens' =
                         conversation_total_output_tokens + output_tokens
                  /\ processed_turns' = Append(processed_turns,
                         [assistant_message_id |-> msg_id,
                          turn_index |-> current_turn_index,
                          input_tokens |-> input_tokens,
                          output_tokens |-> output_tokens,
                          input_cost |-> input_cost,
                          output_cost |-> output_cost,
                          turn_total_cost |-> msg_cost,
                          model_slug |-> identify_model_from_metadata(message),
                          input_discounted |-> current_turn_index > 0,
                          is_turn_end |-> is_turn_end])
                  /\ conversation_total_cost' = conversation_total_cost + msg_cost
                  /\ conversation_total_input_tokens' =
                         conversation_total_input_tokens + input_tokens
                  /\ current_turn_index' =
                         NextTurnIndex(current_turn_index, is_turn_end)
                  /\ i' = i + 1
                  /\ UNCHANGED <<pc, result>>
          ELSE /\ current_turn_index' =
                      NextTurnIndex(current_turn_index, is_turn_end)
               /\ i' = i + 1
               /\ UNCHANGED <<pc, input_cost_rate, processed_turns,
                              conversation_total_input_tokens,
                              conversation_total_output_tokens,
                              conversation_total_cost,
                              assistant_message_count_in_convo, result,
                              costs_config>>
    /\ UNCHANGED <<batchVars, mapping, mode, linVars, real_turns_count>>

\* lines 312-324
DetailedReturn ==
    /\ pc = "detailed"
    /\ i = Len(ordered_message_ids)
    /\ result' =
         [mode |-> "detailed",
          total_input_tokens_across_turns |-> conversation_total_input_tokens,
          total_output_tokens_for_all_assistant_msgs |->
              conversation_total_output_tokens,
          total_cost |-> conversation_total_cost,
          real_turns_count |-> real_turns_count,
          assistant_messages_count |-> assistant_message_count_in_convo,
          turns_details |-> processed_turns,
          message_count |-> message_count(ordered_message_ids)]
    /\ pc' = "returned"
    /\ UNCHANGED <<batchVars, mapping, costs_config, mode,
                   linVars, real_turns_count, i,
                   history_for_inputs, current_turn_index, input_cost_rate,
                   processed_turns, conversation_total_input_tokens,
                   conversation_total_output_tokens, conversation_total_cost,
                   assistant_message_count_in_convo>>

Next ==
    \/ AnalyzeBegin
    \/ ResolveRoot
    \/ StartWalk
    \/ WalkStep
    \/ WalkEnd
    \/ CheckOrder
    \/ SimpleMode
    \/ DetailedStep
    \/ DetailedReturn

(***************************************************************************)
(* Inputs of the analysis: conversations whose mapping is a chain under    *)
(* the synthetic root, and cost tables.                                    *)
(***************************************************************************)
MaxShort == 2           \* longest thread analysed under every cost table

ChainIds == <<"m1", "m2", "m3", "m4", "m5", "m6">>

Text(n) ==
    [content_type |-> "text", parts |-> n, thoughts |-> <<>>,
     user_profile |-> 0, user_instructions |-> 0]

Thoughts(ts) ==
    [content_type |-> "thoughts", parts |-> 0, thoughts |-> ts,
     user_profile |-> 0, user_instructions |-> 0]

Contents == {Text(2), Thoughts(<<[summary |-> 1, content |-> 3]>>)}

Roles == {"user", "assistant", "tool"}

Messages ==
    {[role |-> r, end_turn |-> e, content |-> c,
      model_slug |-> IF r = "assistant" THEN "o3" ELSE None,
      default_model_slug |-> None, finish_details |-> FALSE,
      recipient |-> "all", encoder |-> "ok"] :
        r \in Roles, e \in BOOLEAN, c \in Contents}

Threads(n) == UNION {[1..k -> Messages] : k \in 0..n}

\* The mapping of a conversation without regenerations: the synthetic root
\* and one node per message, each the only child of the one before.
ChainMapping(thread) ==
    LET id(k) == IF k = 0 THEN CCR ELSE ChainIds[k]
        n == Len(thread)
    IN [x \in {id(k) : k \in 0..n} |->
          LET k == CHOOSE k \in 0..n : id(k) = x IN
          [parent |-> IF k = 0 THEN None ELSE id(k - 1),
           children |-> IF k < n THEN <<id(k + 1)>> ELSE <<>>,
           message |-> IF k = 0 THEN <<>> ELSE <<thread[k]>>]]

CostTables ==
    { <<>>,
      << [key |-> "gpt-4o", rates |-> Rates(250, 1000)] >>,
      << [key |-> "o3", rates |-> Rates(1000, 4000)] >>,
      << [key |-> "o3", rates |-> (InKey :> 1000)] >>,
      << [key |-> "gpt-4o", rates |-> Rates(250, 1000)],
         [key |-> "o1", rates |-> EmptyDict],
         [key |-> "o3", rates |-> Rates(1000, 4000)] >>,
      << [key |-> "o3", rates |-> EmptyDict],
         [key |-> "gpt-4o", rates |-> Rates(250, 1000)] >> }

Modes == {"detailed", "simple"}

\* Two messages for the conversations whose mapping is not a chain: a user
\* message that ends a turn and an assistant message that does not.
BranchMessages ==
    {m \in Messages :
        /\ m.content = Text(2)
        /\ \/ m.role = "user" /\ m.end_turn
           \/ m.role = "assistant" /\ ~m.end_turn}

\* A message that ends a turn, with no metadata and a recipient of "all".
Msg(role, content) ==
    [role |-> role, end_turn |-> TRUE, content |-> content,
     model_slug |-> None, default_model_slug |-> None,
     finish_details |-> FALSE, recipient |-> "all", encoder |-> "ok"]

LongThoughts ==
    Thoughts(<<[summary |-> 1, content |-> 3], [summary |-> 0, content |-> 2]>>)

Context ==
    [content_type |-> "user_editable_context", parts |-> 0, thoughts |-> <<>>,
     user_profile |-> 1, user_instructions |-> 2]

\* a content type the extractor does not count
CodeContent ==
    [content_type |-> "code", parts |-> 2, thoughts |-> <<>>,
     user_profile |-> 0, user_instructions |-> 0]

\* assistant messages of every metadata shape the label depends on
LabelMessages ==
    {[Msg("assistant", Text(2)) EXCEPT !.model_slug = s,
                                       !.default_model_slug = d,
                                       !.finish_details = f,
                                       !.recipient = r] :
        s \in {None, "", "unknown-model"}, d \in {None, "", "gpt-4o"},
        f \in BOOLEAN, r \in {None, "all", "browser"}}

\* assistant messages of models other than o3
SlugMessages ==
    {[Msg("assistant", Text(2)) EXCEPT !.model_slug = s] :
        s \in {"gpt-4o", "o1"}}

\* messages of the three counted roles with every content type
ContentMessages ==
    {Msg(r, c) : r \in {"user", "assistant", "system"},
                 c \in {Text(3), LongThoughts, Context, CodeContent}}

\* messages on whose texts the encoder raises
EncoderMessages ==
    {[Msg(r, c) EXCEPT !.encoder = e] :
        r \in {"user", "assistant"}, c \in {Text(2), LongThoughts},
        e \in Encoders \ {"ok"}}

RichMessages ==
    LabelMessages \cup SlugMessages \cup ContentMessages \cup EncoderMessages

\* One such message alone, after a user message, before an assistant
\* message, or between the two.
RichThreads ==
    LET u == Msg("user", Text(2))
        a == [Msg("assistant", Text(2)) EXCEPT !.model_slug = "o3"]
    IN UNION {{<<r>>, <<u, r>>, <<r, a>>, <<u, r, a>>} : r \in RichMessages}

\* analyze_conversation_tokens_and_costs called on a conversation: a chain
\* of any messages, or any structure (branches, placeholders, cycles,
\* dangling children) of the two BranchMessages
Init ==
    /\ mode \in Modes
    /\ \/ /\ costs_config = DEFAULT_MODEL_COSTS
          /\ mapping \in {EmptyMapping}
                 \cup {ChainMapping(t) : t \in Threads(MaxMsgs)}
                 \cup MappingsOver(BranchMessages)
       \/ /\ costs_config \in CostTables
          /\ mapping \in {EmptyMapping}
                 \cup {ChainMapping(t) : t \in Threads(MaxShort)}
       \/ /\ costs_config \in {DEFAULT_MODEL_COSTS} \cup CostTables
          /\ mapping \in {ChainMapping(t) : t \in RichThreads}
    /\ pc = "analyze"
    /\ InitLocals
    /\ NoBatch

Spec == Init /\ [][Next]_vars

(***************************************************************************)
(* analyzer.py, main: the batch loop over the filtered conversations, and  *)
(* reporting.py: the partition and the summary of the report.              *)
(***************************************************************************)
MaxConvs == 3           \* longest batch of conversations

ConvIds == <<"c1", "c2", "c3", "c4", "c5", "c6">>

\* result.get(key, 0)
GetNum(r, key) == IF key \in DOMAIN r THEN r[key] ELSE 0

\* sum(result.get(key, 0) for result in results)
Total(results, key) ==
    SeqSum([k \in DOMAIN results |-> GetNum(results[k], key)])

\* The significant bits of a Python float, scaled down from 53 so that
\* sums of the model's token and cost totals are rounded.
FloatBits == 15

RECURSIVE Quantum(_)
\* The spacing of the floats around x >= 0.
Quantum(x) == IF x < 2^FloatBits THEN 1 ELSE 2 * Quantum(x \div 2)

\* The float nearest to x >= 0, ties to the even mantissa.
Round(x) ==
    LET q == Quantum(x)
        lo == (x \div q) * q
    IN IF 2 * (x - lo) < q THEN lo
       ELSE IF 2 * (x - lo) > q THEN lo + q
       ELSE IF (lo \div q) % 2 = 0 THEN lo ELSE lo + q

\* a + b on floats
FloatAdd(a, b) == Round(a + b)

RECURSIVE FloatFold(_, _)
FloatFold(values, k) ==
    IF k = 0 THEN 0 ELSE FloatAdd(FloatFold(values, k - 1), values[k])

\* sum(values), or a total kept with +=, on floats: the partial sums from
\* 0 on are rounded one after the other
FloatSum(values) == FloatFold(values, Len(values))

\* sum(result.get(key, 0) for result in results) over a float field: the
\* output tokens, to which thoughts add 1.2 tokens each, and the costs
FloatTotal(results, key) ==
    FloatSum([k \in DOMAIN results |-> GetNum(results[k], key)])

RECURSIVE Gcd(_, _)
Gcd(a, b) == IF b = 0 THEN a ELSE Gcd(b, a % b)

\* total / len(valid_results) if valid_results else 0, as a fraction in
\* lowest terms
Average(total, n) ==
    IF n = 0 \/ total = 0 THEN <<0, 1>>
    ELSE <<total \div Gcd(total, n), n \div Gcd(total, n)>>

\* line 55
error_conversations(results) ==
    SelectSeq(results, LAMBDA r : "error" \in DOMAIN r)

valid_results_all(results) == results

\* line 60
valid_results(results) ==
    SelectSeq(results, LAMBDA r : "error" \notin DOMAIN r)

\* lines 63-105
DetailedSummary(valid) ==
    LET total_input_tokens == Total(valid, "total_input_tokens_across_turns")
        total_output_tokens ==
            FloatTotal(valid, "total_output_tokens_for_all_assistant_msgs")
        total_cost == FloatTotal(valid, "total_cost")
        total_turns ==
            SeqSum([k \in DOMAIN valid |->
                IF "real_turns_count" \in DOMAIN valid[k]
                THEN valid[k].real_turns_count
                ELSE GetNum(valid[k], "assistant_messages_count")])
        total_assistant_messages == Total(valid, "assistant_messages_count")
        n == Len(valid)
    IN [total_input_tokens |-> total_input_tokens,
        total_output_tokens |-> total_output_tokens,
        total_tokens |-> FloatAdd(total_input_tokens, total_output_tokens),
        total_cost |-> total_cost,
        total_turns |-> total_turns,
        total_assistant_messages |-> total_assistant_messages,
        avg_tokens_per_conversation |->
            Average(FloatAdd(total_input_tokens, total_output_tokens), n),
        avg_cost_per_conversation |-> Average(total_cost, n),
        avg_turns_per_conversation |-> Average(total_turns, n),
        avg_messages_per_conversation |->
            Average(total_assistant_messages, n)]

\* lines 106-155
SimpleSummary(valid) ==
    LET total_input_tokens == Total(valid, "simple_total_input_tokens")
        total_output_tokens ==
            FloatTotal(valid, "simple_total_output_tokens")
        total_cost == FloatTotal(valid, "simple_total_cost")
        total_turns == Total(valid, "real_turns_count")
        n == Len(valid)
    IN [total_user_tokens |-> Total(valid, "simple_total_user_tokens"),
        total_assistant_tokens |->
            FloatTotal(valid, "simple_total_assistant_tokens"),
        total_system_tokens |-> Total(valid, "simple_total_system_tokens"),
        total_input_tokens |-> total_input_tokens,
        total_output_tokens |-> total_output_tokens,
        total_tokens |-> FloatAdd(total_input_tokens, total_output_tokens),
        total_input_cost |-> FloatTotal(valid, "simple_input_cost"),
        total_output_cost |-> FloatTotal(valid, "simple_output_cost"),
        total_cost |-> total_cost,
        total_turns |-> total_turns,
        avg_tokens_per_conversation |->
            Average(FloatAdd(total_input_tokens, total_output_tokens), n),
        avg_cost_per_conversation |-> Average(total_cost, n),
        avg_turns_per_conversation |-> Average(total_turns, n)]

RECURSIVE AllTurns(_, _)
\* lines 181-184: the turns of the first k results, one after the other
AllTurns(valid, k) ==
    IF k = 0 THEN <<>>
    ELSE AllTurns(valid, k - 1)
         \o (IF "turns_details" \in DOMAIN valid[k]
             THEN valid[k].turns_details ELSE <<>>)

\* lines 179-236: what is added to the statistics of a model, in the order
\* of the additions: one entry per turn in detailed mode, one per result
\* in simple mode
ModelEntries(valid, current_calculation_mode) ==
    IF current_calculation_mode = "detailed"
    THEN LET turns == AllTurns(valid, Len(valid)) IN
         [k \in DOMAIN turns |->
            [model |-> turns[k].model_slug,
             input_tokens |-> turns[k].input_tokens,
             output_tokens |-> turns[k].output_tokens,
             cost |-> turns[k].turn_total_cost]]
    ELSE [k \in DOMAIN valid |->
            [model |-> IF "simple_cost_model_key" \in DOMAIN valid[k]
                       THEN valid[k].simple_cost_model_key
                       ELSE [key |-> "unknown", rates_not_found |-> FALSE],
             input_tokens |-> GetNum(valid[k], "simple_total_input_tokens"),
             output_tokens |-> GetNum(valid[k], "simple_total_output_tokens"),
             cost |-> GetNum(valid[k], "simple_total_cost")]]

\* model in DEFAULT_MODEL_COSTS: the label of a turn is a key of the table
\* when it is the message's own slug, and the key simple mode charged when
\* it is not annotated
DefaultKeyOf(model) ==
    IF "kind" \in DOMAIN model
    THEN IF model.kind = "slug" /\ HasKey(DEFAULT_MODEL_COSTS, model.name)
         THEN model.name ELSE None
    ELSE IF ~model.rates_not_found /\ HasKey(DEFAULT_MODEL_COSTS, model.key)
         THEN model.key ELSE None

RECURSIVE FirstSeen(_, _)
\* The keys of model_stats in insertion order.
FirstSeen(entries, k) ==
    IF k = 0 THEN <<>>
    ELSE LET before == FirstSeen(entries, k - 1) IN
         IF entries[k].model \in Range(before) THEN before
         ELSE Append(before, entries[k].model)

\* lines 157-261
model_breakdown(valid, current_calculation_mode) ==
    LET entries == ModelEntries(valid, current_calculation_mode)
        models == FirstSeen(entries, Len(entries))
        of(model) == SelectSeq(entries, LAMBDA e : e.model = model)
        cost(model) ==
            FloatSum([k \in DOMAIN of(model) |-> of(model)[k].cost])
        total_all_models_cost ==
            FloatSum([k \in DOMAIN models |-> cost(models[k])])
    IN [model \in Range(models) |->
          LET es == of(model)
              total_input_tokens ==
                  SeqSum([k \in DOMAIN es |-> es[k].input_tokens])
              total_output_tokens ==
                  FloatSum([k \in DOMAIN es |-> es[k].output_tokens])
              key == DefaultKeyOf(model)
          IN [message_count |-> Len(es),
              total_input_tokens |-> total_input_tokens,
              total_output_tokens |-> total_output_tokens,
              total_cost |-> cost(model),
              input_cost_rate |->
                  IF key = None THEN 0
                  ELSE Get(DEFAULT_MODEL_COSTS, key)[InKey],
              output_cost_rate |->
                  IF key = None THEN 0
                  ELSE Get(DEFAULT_MODEL_COSTS, key)[OutKey],
              percentage_of_total_cost |->
                  Average(100 * cost(model), total_all_models_cost),
              avg_tokens_per_message |->
                  Average(FloatAdd(total_input_tokens, total_output_tokens),
                          Len(es)),
              avg_cost_per_message |-> Average(cost(model), Len(es)),
              total_tokens |->
                  FloatAdd(total_input_tokens, total_output_tokens)]]

\* if result.get("create_time_ts"): a time in seconds, 0 standing for the
\* absent time as well, which the test skips alike
HasCreateTime(r) == "create_time_ts" \in DOMAIN r /\ r.create_time_ts # 0

\* datetime.fromtimestamp(ts).strftime("%Y-%m-%d"): the day of a time in
\* seconds, as its number since the epoch
DayOf(create_time_ts) == create_time_ts \div 86400

DayResultsFirstRun(valid, day) ==
    LET on(k) == HasCreateTime(valid[k]) /\ DayOf(valid[k].create_time_ts) = day
        first == CHOOSE k \in DOMAIN valid :
                     on(k) /\ \A j \in 1..(k - 1) : ~on(j)
        last == CHOOSE k \in first..Len(valid) :
                    /\ \A j \in first..k : on(j)
                    /\ k < Len(valid) => ~on(k + 1)
    IN SubSeq(valid, first, last)

\* lines 275-279: the results added to the statistics of a day
DayResults(valid, day) ==
    SelectSeq(valid, LAMBDA r : HasCreateTime(r) /\ DayOf(r.create_time_ts) = day)

\* lines 263-330; the keys are sorted by date
temporal_analysis(valid, current_calculation_mode) ==
    LET days == {DayOf(valid[k].create_time_ts) :
                    k \in {j \in DOMAIN valid : HasCreateTime(valid[j])}}
        detailed == current_calculation_mode = "detailed"
    IN [day \in days |->
          LET rs == DayResults(valid, day)
              total_input_tokens ==
                  Total(rs, IF detailed THEN "total_input_tokens_across_turns"
                            ELSE "simple_total_input_tokens")
              total_output_tokens ==
                  FloatTotal(rs,
                      IF detailed
                      THEN "total_output_tokens_for_all_assistant_msgs"
                      ELSE "simple_total_output_tokens")
              total_cost ==
                  FloatTotal(rs, IF detailed THEN "total_cost"
                                 ELSE "simple_total_cost")
              total_turns == Total(rs, "real_turns_count")
          IN [conversation_count |-> Len(rs),
              total_input_tokens |-> total_input_tokens,
              total_output_tokens |-> total_output_tokens,
              total_cost |-> total_cost,
              total_turns |-> total_turns,
              total_assistant_messages |->
                  IF detailed THEN Total(rs, "assistant_messages_count")
                  ELSE 0,
              avg_tokens_per_conversation |->
                  Average(FloatAdd(total_input_tokens, total_output_tokens),
                          Len(rs)),
              avg_cost_per_conversation |-> Average(total_cost, Len(rs)),
              avg_turns_per_conversation |-> Average(total_turns, Len(rs)),
              total_tokens |->
                  FloatAdd(total_input_tokens, total_output_tokens)]]

\* generate_comprehensive_report, lines 38-330: the metadata, the errors,
\* the summary, the statistics per model and the statistics per day
generate_comprehensive_report(results, current_calculation_mode) ==
    [metadata |-> [calculation_mode |-> current_calculation_mode,
                   total_conversations |-> Len(results)],
     errors |-> error_conversations(results),
     summary |-> IF current_calculation_mode = "detailed"
                 THEN DetailedSummary(valid_results(results))
                 ELSE SimpleSummary(valid_results(results)),
     model_breakdown |->
         model_breakdown(valid_results(results), current_calculation_mode),
     temporal_analysis |->
         temporal_analysis(valid_results(results), current_calculation_mode)]

\* lines 1027-1033 of main: the result of the conversation just analysed
\* is given its conversation_id and appended; the loop goes on to the next
\* conversation, or to the menu after the last one.  The create_time of
\* the conversation, which the analysis copies into every result as
\* create_time_ts (analyzers.py, lines 76, 83, 93, 173 and 314), is set
\* here, where the conversation is at hand.
MainAppend ==
    /\ pc = "returned"
    /\ filtered_convs # <<>>
    /\ LET n == Len(all_analysis_results) + 1 IN
       /\ all_analysis_results' =
              Append(all_analysis_results,
                     result @@ [conversation_id |-> filtered_convs[n].id,
                                create_time_ts |->
                                    filtered_convs[n].create_time])
       /\ IF n < Len(filtered_convs)
          THEN /\ mapping' = filtered_convs[n + 1].mapping
               /\ pc' = "analyze"
               /\ root_id' = None
               /\ current_id' = None
               /\ ordered_message_ids' = <<>>
               /\ visited_ids' = {}
               /\ real_turns_count' = 0
               /\ i' = 0
               /\ history_for_inputs' = <<>>
               /\ current_turn_index' = 0
               /\ input_cost_rate' = 0
               /\ processed_turns' = <<>>
               /\ conversation_total_input_tokens' = 0
               /\ conversation_total_output_tokens' = 0
               /\ conversation_total_cost' = 0
               /\ assistant_message_count_in_convo' = 0
               /\ result' = <<>>
          ELSE /\ pc' = "menu"
               /\ UNCHANGED <<mapping, linVars, anVars>>
    /\ UNCHANGED <<conversations_data, filter_model, filtered_convs, report,
                   costs_config, mode>>

\* lines 1160-1172 of main: choice 5 of the menu
GenerateReport ==
    /\ pc = "menu"
    /\ report' = generate_comprehensive_report(all_analysis_results, mode)
    /\ pc' = "reported"
    /\ UNCHANGED <<conversations_data, filter_model, filtered_convs,
                   all_analysis_results, mapping, costs_config, mode,
                   linVars, anVars>>

filter_conversations_any_role(conversations, model_slug_filter) ==
    IF Falsy(model_slug_filter) THEN conversations
    ELSE SelectSeq(conversations,
            LAMBDA conv :
                \E msg_id \in Keys(conv.mapping) :
                    /\ HasMessage(conv.mapping, msg_id)
                    /\ MessageOf(conv.mapping, msg_id).model_slug
                           = model_slug_filter)

\* filters.py, filter_conversations_by_model: the conversations of which
\* some node of the mapping holds an assistant message of that model_slug
filter_conversations_by_model(conversations, model_slug_filter) ==
    IF Falsy(model_slug_filter) THEN conversations
    ELSE SelectSeq(conversations,
            LAMBDA conv :
                \E msg_id \in Keys(conv.mapping) :
                    /\ HasMessage(conv.mapping, msg_id)
                    /\ MessageOf(conv.mapping, msg_id).role = "assistant"
                    /\ MessageOf(conv.mapping, msg_id).model_slug
                           = model_slug_filter)

\* lines 997-1014 of main: the conversations loaded are filtered by model
\* (the function returns its input under the very test that makes main
\* skip the call); main returns when none is left, and otherwise enters
\* the batch loop with the first one
MainFilter ==
    /\ pc = "filter"
    /\ filtered_convs' =
           filter_conversations_by_model(conversations_data, filter_model)
    /\ IF filtered_convs' = <<>>
       THEN pc' = "done" /\ UNCHANGED mapping
       ELSE pc' = "analyze" /\ mapping' = filtered_convs'[1].mapping
    /\ UNCHANGED <<conversations_data, filter_model, all_analysis_results,
                   report, costs_config, mode, linVars, anVars>>

NextBatch == Next \/ MainFilter \/ MainAppend \/ GenerateReport

\* The conversations of a batch: no mapping, no message, a user message
\* alone, a user and an assistant message, the same with a text on which
\* the encoder raises ValueError, and a user message on which the encoder
\* raises another exception.
BatchMappings ==
    LET u == Msg("user", Text(2))
        a == [Msg("assistant", LongThoughts) EXCEPT !.model_slug = "o3"]
    IN {EmptyMapping, ChainMapping(<<>>), ChainMapping(<<u>>),
        ChainMapping(<<u, a>>),
        ChainMapping(<<[u EXCEPT !.encoder = "ValueError"], a>>),
        ChainMapping(<<[u EXCEPT !.encoder = "Exception"]>>)}

\* The batches of conversations of the given kinds, a kind being a mapping
\* and a create_time.
BatchesOf(kinds) ==
    UNION {{[k \in 1..n |-> [id |-> ConvIds[k], mapping |-> cs[k].mapping,
                             create_time |-> cs[k].create_time]] :
                cs \in [1..n -> kinds]} : n \in 1..MaxConvs}

Noon == 43200           \* a time of the first day, in seconds

BatchesOver(mappings) ==
    BatchesOf([mapping : mappings, create_time : {Noon}])

Batches == BatchesOver(BatchMappings)

\* The conversations of the reports: an answer of o3 with thoughts on
\* either of two days or without create_time, an answer of gpt-4o on the
\* first day at another hour or on the second day, and a conversation
\* without mapping.
ReportKinds ==
    LET u == Msg("user", Text(2))
        o3 == ChainMapping(<<u, [Msg("assistant", LongThoughts)
                                   EXCEPT !.model_slug = "o3"]>>)
        gpt == ChainMapping(<<u, [Msg("assistant", Text(1))
                                    EXCEPT !.model_slug = "gpt-4o"]>>)
    IN {[mapping |-> o3, create_time |-> Noon],
        [mapping |-> o3, create_time |-> Noon + 86400],
        [mapping |-> o3, create_time |-> 0],
        [mapping |-> gpt, create_time |-> 3600],
        [mapping |-> gpt, create_time |-> Noon + 86400],
        [mapping |-> EmptyMapping, create_time |-> Noon]}

\* The conversations that are filtered by model: no mapping; an assistant
\* message of o3 on the thread; one of gpt-4o; a user message that carries
\* the slug o3 before an assistant message of gpt-4o; and a user message
\* answered twice, by gpt-4o and then, in a second branch, by o3.
FilterMappings ==
    LET u == Msg("user", Text(2))
        a(slug) == [Msg("assistant", Text(1)) EXCEPT !.model_slug = slug]
        node(parent, children, message) ==
            [parent |-> parent, children |-> children, message |-> message]
    IN {EmptyMapping,
        ChainMapping(<<u, a("o3")>>),
        ChainMapping(<<u, a("gpt-4o")>>),
        ChainMapping(<<[u EXCEPT !.model_slug = "o3"], a("gpt-4o")>>),
        (CCR :> node(None, <<"m1">>, <<>>))
          @@ ("m1" :> node(CCR, <<"m2", "m3">>, <<u>>))
          @@ ("m2" :> node("m1", <<>>, <<a("gpt-4o")>>))
          @@ ("m3" :> node("m1", <<>>, <<a("o3")>>))}

FilterSlugs == {"", "o3"}

\* main once the conversations are loaded: they are filtered by model and
\* analysed under DEFAULT_MODEL_COSTS
InitBatch ==
    /\ mode \in Modes
    /\ costs_config = DEFAULT_MODEL_COSTS
    /\ \/ filter_model = None
             /\ conversations_data \in Batches \cup BatchesOf(ReportKinds)
       \/ filter_model \in FilterSlugs
             /\ conversations_data \in BatchesOver(FilterMappings)
    /\ filtered_convs = conversations_data
    /\ all_analysis_results = <<>>
    /\ report = <<>>
    /\ mapping = EmptyMapping
    /\ pc = "filter"
    /\ InitLocals

SpecBatch == InitBatch /\ [][NextBatch]_vars

(***************************************************************************)
(* The first-child path, defined from the mapping alone.                   *)
(***************************************************************************)
\* The node the walk starts at: the root, or the first child of the
\* synthetic root.
StartNode(m, root) ==
    IF root = CCR
    THEN IF ChildrenOf(m, root) = <<>> THEN None ELSE ChildrenOf(m, root)[1]
    ELSE root

RECURSIVE PathNode(_, _, _)
\* The k-th node after s along first children; None past the end.
PathNode(m, s, k) ==
    IF k = 0 THEN s
    ELSE LET p == PathNode(m, s, k - 1)
         IN IF p \in Keys(m) /\ m[p].children # <<>>
            THEN m[p].children[1] ELSE None

PathBound(m) == Cardinality(Keys(m)) + 1

PathSet(m, s) == {PathNode(m, s, k) : k \in 0..PathBound(m)} \ {None}

\* The message-bearing nodes among the first n nodes of the path from s.
PathPrefixMessages(m, s, n) ==
    SelectSeq([k \in 1..n |-> PathNode(m, s, k - 1)],
              LAMBDA id : HasMessage(m, id))

MessageNodesOn(m, s) == {n \in PathSet(m, s) : HasMessage(m, n)}

RECURSIVE Up(_, _, _)
Up(m, n, k) ==
    IF k = 0 \/ m[n].parent \notin Keys(m) THEN n ELSE Up(m, m[n].parent, k - 1)

\* The data model's invariant: parent and children links agree and form one
\* tree with a single root.
IsTree(m) ==
    /\ Keys(m) # {}
    /\ \A p \in Keys(m) : \A j \in DOMAIN m[p].children :
          LET c == m[p].children[j] IN
          /\ c \in Keys(m)
          /\ m[c].parent = p
          /\ \A j2 \in DOMAIN m[p].children : j2 # j => m[p].children[j2] # c
    /\ \A n \in Keys(m) :
          m[n].parent # None =>
              m[n].parent \in Keys(m) /\ n \in Range(m[m[n].parent].children)
    /\ Cardinality({n \in Keys(m) : m[n].parent = None}) = 1
    /\ \A n \in Keys(m) : m[Up(m, n, Cardinality(Keys(m)))].parent = None

Linearized == pc = "linearized"

(***************************************************************************)
(* C1: every id of the returned sequence is a key of the mapping, carries  *)
(* a message and lies on the first-child path from the start node; a node  *)
(* that is only a second or later child of a path node is never returned.  *)
(***************************************************************************)
C1_FirstChildPathOnly ==
    LET path == PathSet(mapping, StartNode(mapping, root_id)) IN
    /\ \A k \in DOMAIN ordered_message_ids :
          LET id == ordered_message_ids[k] IN
          id \in Keys(mapping) /\ HasMessage(mapping, id) /\ id \in path
    /\ \A p \in path \cap Keys(mapping) :
          \A j \in 2..Len(mapping[p].children) :
              mapping[p].children[j] \notin path
                  => mapping[p].children[j] \notin Range(ordered_message_ids)

\* A walk has returned a non-empty thread and dropped a message-bearing
\* sibling of a path node.
C1_Witness ==
    /\ Linearized
    /\ ordered_message_ids # <<>>
    /\ \E p \in PathSet(mapping, StartNode(mapping, root_id)) \cap Keys(mapping) :
          \E j \in 2..Len(mapping[p].children) :
              LET c == mapping[p].children[j] IN
              /\ HasMessage(mapping, c)
              /\ c \notin PathSet(mapping, StartNode(mapping, root_id))
              /\ c \notin Range(ordered_message_ids)

(***************************************************************************)
(* C2: on a tree, the length of the returned sequence is the number of     *)
(* message-bearing nodes on the first-child path the walk follows, and at  *)
(* most the number N of message-bearing nodes reachable via first children *)
(* from the resolved root.                                                 *)
(***************************************************************************)
C2_LengthOnTree ==
    (Linearized /\ IsTree(mapping)) =>
        /\ Len(ordered_message_ids) =
               Cardinality(MessageNodesOn(mapping, StartNode(mapping, root_id)))
        /\ Len(ordered_message_ids) <=
               Cardinality(MessageNodesOn(mapping, root_id))

\* A tree of three nodes with a placeholder or an off-path sibling has been
\* linearized to a non-empty thread.
C2_Witness ==
    /\ Linearized
    /\ IsTree(mapping)
    /\ Cardinality(Keys(mapping)) = 3
    /\ ordered_message_ids # <<>>
    /\ Len(ordered_message_ids) < Cardinality(Keys(mapping))

(***************************************************************************)
(* C3: the walk terminates on every mapping, cyclic or dangling ones       *)
(* included, and what it returns is the message-bearing part of a finite   *)
(* prefix of the first-child path.                                         *)
(***************************************************************************)
OutputIsPathPrefix ==
    \E n \in 0..(PathBound(mapping) + 1) :
        ordered_message_ids =
            PathPrefixMessages(mapping, StartNode(mapping, root_id), n)

C3_WalkTerminates == <>(Linearized /\ OutputIsPathPrefix)

\* The first-child path from the start node comes back to a node it has
\* already passed.
HasFirstChildCycle(m, s) ==
    \E j, k \in 0..PathBound(m) :
        j < k /\ PathNode(m, s, j) # None /\ PathNode(m, s, j) = PathNode(m, s, k)

\* The first-child path leaves the mapping.
HasDanglingChild(m, s) ==
    \E k \in 0..PathBound(m) :
        PathNode(m, s, k) # None /\ PathNode(m, s, k) \notin Keys(m)

\* The walk has returned from a mapping whose first-child path cycles.
C3_Witness ==
    /\ Linearized
    /\ root_id # None
    /\ HasFirstChildCycle(mapping, StartNode(mapping, root_id))
    /\ Len(ordered_message_ids) >= 2

\* The walk has returned from a mapping whose first-child path leaves it.
C3_WitnessDangling ==
    /\ Linearized
    /\ root_id # None
    /\ HasDanglingChild(mapping, StartNode(mapping, root_id))
    /\ ordered_message_ids # <<>>

(***************************************************************************)
(* C4: no node id occurs more than once in the returned sequence.          *)
(***************************************************************************)
C4_NoDuplicateIds ==
    \A j, k \in DOMAIN ordered_message_ids :
        j # k => ordered_message_ids[j] # ordered_message_ids[k]

(***************************************************************************)
(* The analysis, restated from the linearized sequence alone.              *)
(***************************************************************************)
Returned == pc = "returned"

IsError(r) == "error" \in DOMAIN r

\* The analysis has returned a detailed result without error marker.
ReturnedDetailed == Returned /\ ~IsError(result) /\ result.mode = "detailed"

\* The detailed walk is under way or has returned its result.
InDetailed == pc = "detailed" \/ ReturnedDetailed

MsgAt(k) == MessageOf(mapping, ordered_message_ids[k])

\* The positions among the first n of the sequence whose message ends a turn.
EndTurnPositions(n) == {k \in 1..n : MsgAt(k).end_turn = TRUE}

\* The positions of the assistant messages among the first n, in order.
AssistantPositions(n) ==
    SelectSeq([k \in 1..n |-> k], LAMBDA k : MsgAt(k).role = "assistant")

\* The count_thoughts=False token count of the message at position k.
HistoryTokensAt(k) == ExtractTokens(MsgAt(k), FALSE)

\* The full input rate of the entry charged for the message at position k.
FullInputRateAt(k) ==
    HalfUnits(current_model_costs(costs_config, MsgAt(k).model_slug)[InKey])

(***************************************************************************)
(* C5: the analysis never raises; it returns a result carrying 'error'     *)
(* (and no token or cost field) exactly when the mapping is empty or the   *)
(* linearized sequence is empty.                                           *)
(***************************************************************************)
ErrorMarkerExact ==
    Returned =>
        /\ IsError(result) <=>
               (Keys(mapping) = {} \/ ordered_message_ids = <<>>)
        /\ IsError(result) => DOMAIN result = {"error", "mode"}
        /\ result.mode = mode

C5_FailsSoftly == pc # "raised" /\ ErrorMarkerExact

(***************************************************************************)
(* C6: real_turns_count of a result without error is the number of         *)
(* positions of the linearized sequence whose message has end_turn true,   *)
(* whatever the role and whatever the mode.                                *)
(***************************************************************************)
C6_RealTurnsCount ==
    (Returned /\ ~IsError(result)) =>
        result.real_turns_count =
            Cardinality(EndTurnPositions(Len(ordered_message_ids)))

\* A simple-mode result counts two turns, one of them ended by a message
\* that is not an assistant message.
C6_Witness ==
    /\ Returned
    /\ ~IsError(result)
    /\ result.mode = "simple"
    /\ result.real_turns_count = 2
    /\ Len(ordered_message_ids) = 3
    /\ \E k \in EndTurnPositions(3) : MsgAt(k).role # "assistant"

(***************************************************************************)
(* C7: in detailed mode the turn index is 0 before the walk, is one more   *)
(* after each message with end_turn true and unchanged after any other, so *)
(* at the end it equals real_turns_count.                                  *)
(***************************************************************************)
C7_TurnIndexReplay ==
    /\ pc = "detailed" =>
           current_turn_index = Cardinality(EndTurnPositions(i))
    /\ ReturnedDetailed => current_turn_index = result.real_turns_count

\* A detailed walk has ended after two turns and a message that ends none.
C7_Witness ==
    /\ ReturnedDetailed
    /\ current_turn_index = 2
    /\ Len(ordered_message_ids) = 3

(***************************************************************************)
(* C8: the input_tokens of the TurnRecord of the assistant message at      *)
(* position p is the sum of the count_thoughts=False token counts of the   *)
(* messages at the positions before p, of every role, without the message *)
(* at p itself.                                                            *)
(***************************************************************************)
C8_InputTokensArePriorHistory ==
    InDetailed =>
        \A k \in DOMAIN processed_turns :
            LET p == AssistantPositions(i)[k] IN
            /\ processed_turns[k].assistant_message_id = ordered_message_ids[p]
            /\ processed_turns[k].input_tokens =
                   SeqSum([j \in 1..(p - 1) |-> HistoryTokensAt(j)])

\* A TurnRecord whose input covers a user message and an earlier assistant
\* message, for an assistant message that has tokens of its own.
C8_Witness ==
    /\ ReturnedDetailed
    /\ Len(processed_turns) = 2
    /\ Len(ordered_message_ids) = 3
    /\ MsgAt(1).role = "user"
    /\ \A k \in 1..3 : HistoryTokensAt(k) > 0
    /\ processed_turns[2].input_tokens = HistoryTokensAt(1) + HistoryTokensAt(2)

(***************************************************************************)
(* C9: an assistant message is charged the full input rate of its resolved *)
(* entry when the turn index at that message is 0, and exactly half of it  *)
(* when the turn index is greater than 0; the turn index at a message is   *)
(* the number of end_turn messages before it, and input_discounted marks   *)
(* exactly the half-rate messages.                                         *)
(***************************************************************************)
C9_DiscountAfterFirstTurn ==
    InDetailed =>
        /\ \A k \in DOMAIN processed_turns :
            LET p == AssistantPositions(i)[k]
                rec == processed_turns[k]
            IN
            /\ rec.turn_index = Cardinality(EndTurnPositions(p - 1))
            /\ rec.input_discounted <=> rec.turn_index > 0
            /\ rec.turn_index = 0 =>
                   rec.input_cost = rec.input_tokens * FullInputRateAt(p)
            /\ rec.turn_index > 0 =>
                   2 * rec.input_cost = rec.input_tokens * FullInputRateAt(p)
        /\ processed_turns # <<>> =>
            LET k == Len(processed_turns)
                p == AssistantPositions(i)[k]
            IN IF processed_turns[k].turn_index > 0
               THEN 2 * input_cost_rate = FullInputRateAt(p)
               ELSE input_cost_rate = FullInputRateAt(p)

\* Assistant messages in turn 0, turn 1 and turn 2 have been charged for a
\* non-empty input: the first at the full rate, the later ones at half.
C9_Witness ==
    /\ ReturnedDetailed
    /\ Len(processed_turns) = 3
    /\ processed_turns[1].turn_index = 0
    /\ processed_turns[2].turn_index = 1
    /\ processed_turns[3].turn_index = 2
    /\ processed_turns[2].input_tokens > 0
    /\ processed_turns[3].input_tokens > 0
    /\ 2 * processed_turns[3].input_cost =
           processed_turns[3].input_tokens * FullInputRateAt(3)

(***************************************************************************)
(* C10: the TurnRecords are the assistant messages of the sequence, one    *)
(* each and in order; a message of another role produces no TurnRecord and *)
(* no cost, but its count_thoughts=False token count enters the history    *)
(* and the input_tokens of every later assistant message.                  *)
(***************************************************************************)
C10_OneRecordPerAssistantMessage ==
    InDetailed =>
        /\ [k \in DOMAIN processed_turns |->
               processed_turns[k].assistant_message_id]
             = [k \in DOMAIN AssistantPositions(i) |->
                   ordered_message_ids[AssistantPositions(i)[k]]]
        /\ history_for_inputs =
             [k \in 1..i |-> <<ordered_message_ids[k], MsgAt(k).role,
                               HistoryTokensAt(k)>>]
        /\ conversation_total_cost =
             SeqSum([k \in DOMAIN processed_turns |->
                         processed_turns[k].turn_total_cost])
        /\ \A k \in DOMAIN processed_turns :
             processed_turns[k].input_tokens =
                 SeqSum([j \in 1..(AssistantPositions(i)[k] - 1) |->
                             history_for_inputs[j][3]])

\* A user and a tool message with tokens, then an assistant message: one
\* TurnRecord, whose input is the tokens of the two.
C10_Witness ==
    /\ ReturnedDetailed
    /\ Len(ordered_message_ids) = 3
    /\ MsgAt(1).role = "user" /\ MsgAt(2).role = "tool"
    /\ MsgAt(3).role = "assistant"
    /\ HistoryTokensAt(1) > 0 /\ HistoryTokensAt(2) > 0
    /\ Len(result.turns_details) = 1
    /\ result.turns_details[1].input_tokens =
           HistoryTokensAt(1) + HistoryTokensAt(2)
    /\ result.total_cost = result.turns_details[1].turn_total_cost

(***************************************************************************)
(* C11: token sum monotonicity.  The thread up to an assistant message,    *)
(* with any one of the earlier messages taken out, gives that assistant    *)
(* message an input_tokens no greater than the one recorded (so inserting  *)
(* the message never decreases it), and the input_tokens of successive     *)
(* TurnRecords of one conversation never decrease.                         *)
(***************************************************************************)
\* history_for_inputs after the messages ms (line 252)
HistoryOf(ms) ==
    [j \in 1..Len(ms) |-> <<j, ms[j].role, ExtractTokens(ms[j], FALSE)>>]

\* the sequence s without its element at position q
Without(s, q) ==
    [j \in 1..(Len(s) - 1) |-> IF j < q THEN s[j] ELSE s[j + 1]]

\* the messages at the positions 1..p of the linearized sequence
ThreadUpTo(p) == [j \in 1..p |-> MsgAt(j)]

C11_TokenSumMonotone ==
    InDetailed =>
        \A k \in DOMAIN processed_turns :
            LET p == AssistantPositions(i)[k] IN
            /\ \A q \in 1..(p - 1) :
                   InputTokens(HistoryOf(Without(ThreadUpTo(p), q)))
                       <= processed_turns[k].input_tokens
            /\ k > 1 => processed_turns[k - 1].input_tokens
                            <= processed_turns[k].input_tokens

\* Two TurnRecords, the second with more input tokens than the first, and
\* a message before the second whose insertion raised its input tokens.
C11_Witness ==
    /\ ReturnedDetailed
    /\ Len(processed_turns) = 2
    /\ processed_turns[1].input_tokens < processed_turns[2].input_tokens
    /\ LET p == AssistantPositions(i)[2] IN
       \E q \in 1..(p - 1) :
           InputTokens(HistoryOf(Without(ThreadUpTo(p), q)))
               < processed_turns[2].input_tokens

(***************************************************************************)
(* C12: for an assistant message of content type thoughts, output_tokens   *)
(* is the sum over its thought entries of tokens(summary) plus 1.2 times   *)
(* tokens(content); the history entry of that message is 0, and the        *)
(* input_tokens of every TurnRecord is the sum of the history counts of    *)
(* the earlier messages that are not thoughts.                             *)
(***************************************************************************)
IsThoughts(k) == MsgAt(k).content.content_type = "thoughts"

C12_ThoughtsAreOutputOnly ==
    InDetailed =>
        \A k \in DOMAIN processed_turns :
            LET p == AssistantPositions(i)[k]
                ts == MsgAt(p).content.thoughts
            IN
            /\ IsThoughts(p) /\ MsgAt(p).encoder = "ok" =>
                   10 * processed_turns[k].output_tokens =
                       TokenUnit * SeqSum([e \in DOMAIN ts |->
                           10 * ts[e].summary + 12 * ts[e].content])
            /\ IsThoughts(p) => history_for_inputs[p][3] = 0
            /\ processed_turns[k].input_tokens =
                   SeqSum([j \in 1..(p - 1) |->
                       IF IsThoughts(j) THEN 0 ELSE history_for_inputs[j][3]])

\* An assistant message with two thought entries and output tokens,
\* followed by an assistant message whose input is the user message alone.
C12_Witness ==
    /\ ReturnedDetailed
    /\ Len(ordered_message_ids) = 3
    /\ Len(processed_turns) = 2
    /\ MsgAt(1).role = "user"
    /\ IsThoughts(2) /\ Len(MsgAt(2).content.thoughts) = 2
    /\ processed_turns[1].output_tokens > 0
    /\ processed_turns[2].input_tokens = history_for_inputs[1][3]
    /\ processed_turns[2].input_tokens > 0

(***************************************************************************)
(* C13: simple_total_assistant_tokens of simple mode and the sum of the    *)
(* output_tokens of the TurnRecords of detailed mode are the same function *)
(* of the conversation: the sum, over the assistant messages of the        *)
(* thread, of the count_thoughts=True token count.  With one assistant     *)
(* message it is that message's output_tokens.                             *)
(***************************************************************************)
ReturnedSimple == Returned /\ ~IsError(result) /\ result.mode = "simple"

AssistantOutputSum ==
    SeqSum([k \in DOMAIN ordered_message_ids |->
                IF MsgAt(k).role = "assistant"
                THEN ExtractTokens(MsgAt(k), TRUE) ELSE 0])

C13_SimpleDetailedOutputAgree ==
    /\ ReturnedSimple =>
           result.simple_total_assistant_tokens = AssistantOutputSum
    /\ ReturnedDetailed =>
           /\ SeqSum([k \in DOMAIN result.turns_details |->
                          result.turns_details[k].output_tokens])
                  = AssistantOutputSum
           /\ Len(result.turns_details) = 1 =>
                  result.turns_details[1].output_tokens = AssistantOutputSum

\* Simple mode on a single-turn conversation whose only assistant message
\* is a thoughts message: the total carries the thought tokens.
C13_Witness ==
    /\ ReturnedSimple
    /\ result.real_turns_count = 1
    /\ Len(ordered_message_ids) = 2
    /\ MsgAt(1).role = "user" /\ MsgAt(2).role = "assistant"
    /\ IsThoughts(2)
    /\ result.simple_total_assistant_tokens = ExtractTokens(MsgAt(2), TRUE)
    /\ result.simple_total_assistant_tokens > ExtractTokens(MsgAt(2), FALSE)

(***************************************************************************)
(* C14: every TurnRecord is charged at the rates of the entry of its       *)
(* message's own model_slug when the slug is a key of the cost table, else *)
(* of the table's o3 entry, else of the table's first entry, else of the   *)
(* default o3 entry; its label is the message's own slug whatever entry    *)
(* was charged.                                                            *)
(***************************************************************************)
\* the chain of the claim, read off the keys of the table
ChainEntry(table, model_slug) ==
    IF HasKey(table, model_slug) THEN Get(table, model_slug)
    ELSE IF HasKey(table, "o3") THEN Get(table, "o3")
    ELSE IF table # <<>> THEN table[1].rates
    ELSE Rates(1000, 4000)

ChargedAt(turn, entry) ==
    /\ RatesComplete(entry)
    /\ turn.output_cost = turn.output_tokens * 2 * entry[OutKey]
    /\ \/ turn.input_cost = turn.input_tokens * 2 * entry[InKey]
       \/ turn.input_cost = turn.input_tokens * entry[InKey]

LabelledBySlug(turn, message) ==
    message.model_slug \notin {None, ""} =>
        turn.model_slug = [kind |-> "slug", name |-> message.model_slug]

C14_RateResolutionChain ==
    InDetailed =>
        \A k \in DOMAIN processed_turns :
            LET message == MsgAt(AssistantPositions(i)[k]) IN
            /\ ChargedAt(processed_turns[k],
                         ChainEntry(costs_config, message.model_slug))
            /\ LabelledBySlug(processed_turns[k], message)

\* The chain of C14 on the cost tables none of whose entries is empty.
RateChainOnNonEmptyEntries ==
    (\A e \in DOMAIN costs_config : Truthy(costs_config[e].rates))
        => C14_RateResolutionChain

(***************************************************************************)
(* C15: the label of a TurnRecord is resolved by strict priority: the      *)
(* non-empty model_slug; else the non-empty default_model_slug marked as a *)
(* default; else Unknown API Model when the metadata has finish_details;   *)
(* else the tool label of a recipient other than all; else N/A.            *)
(***************************************************************************)
NonEmpty(x) == x # None /\ x # ""

LabelByPriority(label, message) ==
    LET slug == NonEmpty(message.model_slug)
        default == NonEmpty(message.default_model_slug)
        finish == message.finish_details
        tool == NonEmpty(message.recipient) /\ message.recipient # "all"
    IN
    /\ slug => label = [kind |-> "slug", name |-> message.model_slug]
    /\ ~slug /\ default =>
           label = [kind |-> "default", name |-> message.default_model_slug]
    /\ ~slug /\ ~default /\ finish =>
           label = [kind |-> "Unknown API Model", name |-> None]
    /\ ~slug /\ ~default /\ ~finish /\ tool =>
           label = [kind |-> "Tool", name |-> message.recipient]
    /\ ~slug /\ ~default /\ ~finish /\ ~tool =>
           label = [kind |-> "N/A", name |-> None]

C15_LabelPriority ==
    InDetailed =>
        \A k \in DOMAIN processed_turns :
            LabelByPriority(processed_turns[k].model_slug,
                            MsgAt(AssistantPositions(i)[k]))

\* A message to which the first two rules and the last two both apply is
\* labelled by its model_slug.
C15_Witness ==
    /\ ReturnedDetailed
    /\ Len(result.turns_details) = 1
    /\ LET message == MsgAt(AssistantPositions(i)[1]) IN
       /\ message.model_slug = "unknown-model"
       /\ message.default_model_slug = "gpt-4o"
       /\ message.finish_details
       /\ message.recipient = "browser"
       /\ result.turns_details[1].model_slug =
              [kind |-> "slug", name |-> "unknown-model"]

\* A message with an empty model_slug and finish_details is labelled by
\* its default_model_slug.
C15_WitnessDefault ==
    /\ ReturnedDetailed
    /\ Len(result.turns_details) = 1
    /\ LET message == MsgAt(AssistantPositions(i)[1]) IN
       /\ message.model_slug = ""
       /\ message.default_model_slug = "gpt-4o"
       /\ message.finish_details
       /\ result.turns_details[1].model_slug =
              [kind |-> "default", name |-> "gpt-4o"]

(***************************************************************************)
(* C16: in simple mode the input total is the user tokens plus the system  *)
(* tokens and the output total the assistant tokens, thoughts counted for  *)
(* assistant messages only; the two costs are these totals times the full  *)
(* rates of one entry, the table's o3 entry, else its first entry, else    *)
(* the default o3 rates, whatever the number of turns.  An entry that is   *)
(* empty counts as not there.                                              *)
(***************************************************************************)
RoleSum(role, count_thoughts) ==
    SeqSum([k \in DOMAIN ordered_message_ids |->
                IF MsgAt(k).role = role
                THEN ExtractTokens(MsgAt(k), count_thoughts) ELSE 0])

RepresentativeEntry(table) ==
    IF HasKey(table, "o3") /\ Get(table, "o3") # EmptyDict
    THEN Get(table, "o3")
    ELSE IF table # <<>> /\ table[1].rates # EmptyDict
    THEN table[1].rates
    ELSE Rates(1000, 4000)

Raised(kind) == "raised" \in DOMAIN result /\ result.raised = kind

\* the simple-mode part: lines 151-169
SimpleGapRecovered ==
    ReturnedSimple /\ ~RatesComplete(RepresentativeEntry(costs_config)) =>
        /\ result.simple_input_cost = 0
        /\ result.simple_output_cost = 0
        /\ result.simple_total_cost = 0
        /\ result.simple_cost_model_key.rates_not_found

C17_GapsRecovered == ~Raised("KeyError") /\ SimpleGapRecovered

(***************************************************************************)
(* C18: whatever the encoder raises on a text, the message counts 0 for    *)
(* that text and the analysis goes on: no exception of the encoder leaves  *)
(* the analysis, and a text message on which the encoder fails has a       *)
(* history count of 0.                                                     *)
(***************************************************************************)
FailedTextCountsZero ==
    InDetailed =>
        \A k \in 1..i :
            MsgAt(k).encoder # "ok" /\ MsgAt(k).content.content_type = "text"
                => history_for_inputs[k][3] = 0

C18_TokenizerFailuresContained ==
    ~Raised("Exception") /\ FailedTextCountsZero

(***************************************************************************)
(* C19: the report partitions the results by the error marker: its errors  *)
(* are exactly the results carrying error, in order, and its summary is    *)
(* the summary of the results without error alone, so that the error       *)
(* results change no total and no average.                                 *)
(***************************************************************************)
Reported == pc = "reported"

NoError(r) == ~IsError(r)

\* the results without error, and the sum of one of their fields
Valid == SelectSeq(all_analysis_results, NoError)

ValidSum(key) == SeqSum([k \in DOMAIN Valid |-> Valid[k][key]])

\* The sum of a float field over the valid results, in their order.
ValidFloatSum(key) == FloatSum([k \in DOMAIN Valid |-> Valid[k][key]])

C19_ErrorsPartitioned ==
    Reported =>
        /\ report.errors = SelectSeq(all_analysis_results, IsError)
        /\ report.summary =
               generate_comprehensive_report(Valid, mode).summary
        /\ report.summary.total_turns = ValidSum("real_turns_count")
        /\ report.summary.avg_turns_per_conversation =
               Average(ValidSum("real_turns_count"), Len(Valid))
        /\ mode = "detailed" =>
               /\ report.summary.total_cost = ValidFloatSum("total_cost")
               /\ report.summary.total_input_tokens =
                      ValidSum("total_input_tokens_across_turns")
               /\ report.summary.total_output_tokens =
                      ValidFloatSum("total_output_tokens_for_all_assistant_msgs")
               /\ report.summary.total_assistant_messages =
                      ValidSum("assistant_messages_count")
               /\ report.summary.avg_cost_per_conversation =
                      Average(ValidFloatSum("total_cost"), Len(Valid))
        /\ mode = "simple" =>
               /\ report.summary.total_cost = ValidFloatSum("simple_total_cost")
               /\ report.summary.total_input_tokens =
                      ValidSum("simple_total_input_tokens")
               /\ report.summary.total_output_tokens =
                      ValidFloatSum("simple_total_output_tokens")
               /\ report.summary.avg_cost_per_conversation =
                      Average(ValidFloatSum("simple_total_cost"), Len(Valid))

\* A report over one error result between two results with tokens: the
\* averages are over two conversations.
C19_Witness ==
    /\ Reported
    /\ Len(all_analysis_results) = 3
    /\ IsError(all_analysis_results[2])
    /\ Len(report.errors) = 1
    /\ Len(Valid) = 2
    /\ report.summary.total_tokens > 0
    /\ report.summary.avg_turns_per_conversation = <<3, 2>>

(***************************************************************************)
(* C20: the batch loop appends one result per conversation, in the order   *)
(* of the input: the k-th result carries the id of the k-th conversation   *)
(* and the error marker exactly when that conversation has no mapping or   *)
(* no message; no conversation aborts the loop, and after the loop there   *)
(* are as many results as conversations.                                   *)
(***************************************************************************)
MessageNodes(m) == {n \in Keys(m) : HasMessage(m, n)}

ResultsFollowInput ==
    /\ Len(all_analysis_results) <= Len(filtered_convs)
    /\ \A k \in DOMAIN all_analysis_results :
          /\ all_analysis_results[k].conversation_id = filtered_convs[k].id
          /\ IsError(all_analysis_results[k]) <=>
                 MessageNodes(filtered_convs[k].mapping) = {}
          /\ NoError(all_analysis_results[k]) =>
                 /\ all_analysis_results[k].message_count >= 1
                 /\ all_analysis_results[k].message_count <=
                        Cardinality(MessageNodes(filtered_convs[k].mapping))
    /\ pc \in {"menu", "reported"} =>
          Len(all_analysis_results) = Len(filtered_convs)

C20_OneResultPerConversation == pc # "raised" /\ ResultsFollowInput

(***************************************************************************)
(* C21: no step of the analysis, in either mode, changes the conversations *)
(* or the cost table: the table and the batch stay what they were, and the *)
(* mapping under analysis changes only when the loop goes on to the next   *)
(* conversation of the batch, whose mapping it then is.                    *)
(***************************************************************************)
InputsKept ==
    /\ costs_config' = costs_config
    /\ conversations_data' = conversations_data
    /\ filtered_convs' # filtered_convs => pc = "filter"
    /\ mapping' # mapping =>
           /\ pc \in {"filter", "returned"}
           /\ mapping' =
                  filtered_convs'[Len(all_analysis_results') + 1].mapping

C21_InputsUnchanged == [][InputsKept]_vars

\* After a conversation with a discounted message, a second conversation
\* is analysed under the same table and its discounted message is charged
\* the same halved rate.
C21_Witness ==
    /\ pc = "detailed"
    /\ Len(all_analysis_results) = 1
    /\ NoError(all_analysis_results[1])
    /\ Len(all_analysis_results[1].turns_details) = 1
    /\ all_analysis_results[1].turns_details[1].input_discounted
    /\ mapping = filtered_convs[2].mapping
    /\ Len(processed_turns) = 1
    /\ processed_turns[1].input_discounted
    /\ costs_config = DEFAULT_MODEL_COSTS
    /\ 2 * input_cost_rate = HalfUnits(Get(DEFAULT_MODEL_COSTS, "o3")[InKey])

(***************************************************************************)
(* C23: the resolved root is the synthetic root whenever it is a key of    *)
(* the mapping; otherwise it is one of the nodes whose parent is absent or *)
(* not a key, and not a GUID-shaped one when one of them is not            *)
(* GUID-shaped.  A root is resolved whenever there is such a node.         *)
(***************************************************************************)
RootCandidates ==
    {n \in Keys(mapping) :
        mapping[n].parent = None \/ mapping[n].parent \notin Keys(mapping)}

GuidShaped(id) == id = G1

RootResolved == pc \in {"start", "walk"}

C23_RootResolution ==
    /\ RootResolved =>
          IF CCR \in Keys(mapping) THEN root_id = CCR
          ELSE /\ root_id \in RootCandidates
               /\ (\E c \in RootCandidates : ~GuidShaped(c))
                      => ~GuidShaped(root_id)
    /\ pc = "linearized" /\ root_id = None =>
          CCR \notin Keys(mapping) /\ RootCandidates = {}

\* Without the synthetic root, a GUID-shaped and another node are both
\* candidates: the other one is the root.
C23_Witness ==
    /\ RootResolved
    /\ CCR \notin Keys(mapping)
    /\ G1 \in RootCandidates
    /\ "root" \in RootCandidates
    /\ root_id = "root"

\* The synthetic root is the root although another node has no parent and
\* the synthetic root itself has a parent that is a key.
C23_WitnessSynthetic ==
    /\ RootResolved
    /\ root_id = CCR
    /\ CCR \notin RootCandidates
    /\ "root" \in RootCandidates

\* Only a GUID-shaped candidate: it is the root.
C23_WitnessGuid ==
    /\ RootResolved
    /\ RootCandidates = {G1}
    /\ Cardinality(Keys(mapping)) > 1
    /\ root_id = G1

(***************************************************************************)
(* C24: the linearizer returns the empty sequence for an empty mapping,    *)
(* for a mapping without root candidate and without synthetic root, and    *)
(* for a synthetic root without children; from a synthetic root with       *)
(* children the walk starts at children[0], and the synthetic root is not  *)
(* the first element of the output.                                        *)
(***************************************************************************)
SyntheticChildren == ChildrenOf(mapping, CCR)

EmptyCases ==
    Linearized =>
        /\ Keys(mapping) = {} => ordered_message_ids = <<>>
        /\ CCR \notin Keys(mapping) /\ RootCandidates = {}
               => ordered_message_ids = <<>>
        /\ CCR \in Keys(mapping) /\ SyntheticChildren = <<>>
               => ordered_message_ids = <<>>

StartsAtFirstChild ==
    Linearized /\ CCR \in Keys(mapping) /\ SyntheticChildren # <<>> =>
        \E n \in 0..(PathBound(mapping) + 1) :
            ordered_message_ids =
                PathPrefixMessages(mapping, SyntheticChildren[1], n)

RootNotFirst ==
    Linearized /\ CCR \in Keys(mapping) /\ SyntheticChildren # <<>>
        /\ ordered_message_ids # <<>>
        => ordered_message_ids[1] # CCR

C24_EmptyAndSyntheticStart ==
    EmptyCases /\ StartsAtFirstChild /\ RootNotFirst

\* C24 as amended: the synthetic root is not the first element of the
\* output unless it carries a message and the first-child path from its
\* children[0] leads back to it; the rest as above.
RootFirstOnlyOnCycle ==
    Linearized /\ CCR \in Keys(mapping) /\ SyntheticChildren # <<>>
        /\ ordered_message_ids # <<>>
        /\ ordered_message_ids[1] = CCR
        => /\ HasMessage(mapping, CCR)
           /\ CCR \in PathSet(mapping, SyntheticChildren[1])
           /\ \A n \in PathSet(mapping, SyntheticChildren[1]) :
                  HasMessage(mapping, n) /\ n # CCR =>
                      \E k \in 0..PathBound(mapping) :
                          /\ PathNode(mapping, SyntheticChildren[1], k) = CCR
                          /\ \A j \in 0..k :
                                 PathNode(mapping, SyntheticChildren[1], j) # n

C24_EmptyAndSyntheticStartAmended ==
    EmptyCases /\ StartsAtFirstChild /\ RootFirstOnlyOnCycle

\* A synthetic root with two different children: the output starts with
\* the first of them.
C24_Witness ==
    /\ Linearized
    /\ CCR \in Keys(mapping)
    /\ Len(SyntheticChildren) = 2
    /\ SyntheticChildren[1] # SyntheticChildren[2]
    /\ SyntheticChildren[1] # CCR
    /\ HasMessage(mapping, SyntheticChildren[1])
    /\ HasMessage(mapping, SyntheticChildren[2])
    /\ ordered_message_ids # <<>>
    /\ ordered_message_ids[1] = SyntheticChildren[1]

\* A synthetic root without children in a mapping with other messages:
\* the output is empty.
C24_WitnessEmpty ==
    /\ Linearized
    /\ CCR \in Keys(mapping)
    /\ SyntheticChildren = <<>>
    /\ \E n \in Keys(mapping) : n # CCR /\ HasMessage(mapping, n)
    /\ ordered_message_ids = <<>>

(***************************************************************************)
(* C25: the extractor counts 0 for a node without message, for a content   *)
(* type other than text, thoughts and user_editable_context, and for       *)
(* thoughts when count_thoughts is false; the count_thoughts=False count   *)
(* of a node is at most its count_thoughts=True count, and equal to it     *)
(* unless the content type is thoughts.                                    *)
(***************************************************************************)
CountedTypes == {"text", "thoughts", "user_editable_context"}

C25_WitnessNoMessage ==
    /\ Returned
    /\ ordered_message_ids # <<>>
    /\ \E n \in Keys(mapping) \ {CCR} : ~HasMessage(mapping, n)

(***************************************************************************)
(* C26: the filter by model.                                               *)
(***************************************************************************)
Filtered == pc # "filter"

\* Some node of the mapping holds an assistant message of that model_slug.
UsesModel(conv, slug) ==
    \E n \in MessageNodes(conv.mapping) :
        /\ MessageOf(conv.mapping, n).role = "assistant"
        /\ MessageOf(conv.mapping, n).model_slug = slug

PositionIn(convs, conv) == CHOOSE k \in DOMAIN convs : convs[k] = conv

\* With a non-empty slug the filter returns, in input order, exactly the
\* conversations that use the model; with none it returns its input.
FilterExact ==
    Filtered =>
        IF Falsy(filter_model)
        THEN filtered_convs = conversations_data
        ELSE /\ Range(filtered_convs) =
                   {conv \in Range(conversations_data) :
                        UsesModel(conv, filter_model)}
             /\ \A j, k \in DOMAIN filtered_convs :
                   j < k => PositionIn(conversations_data, filtered_convs[j])
                              < PositionIn(conversations_data, filtered_convs[k])

\* The thread of the conversation just analysed holds an assistant message
\* of the filter's slug, and the detailed analysis has a TurnRecord
\* labelled with it.
ThreadUsesModel ==
    /\ \E k \in DOMAIN ordered_message_ids :
          MsgAt(k).role = "assistant" /\ MsgAt(k).model_slug = filter_model
    /\ ReturnedDetailed =>
          \E t \in DOMAIN result.turns_details :
              result.turns_details[t].model_slug =
                  [kind |-> "slug", name |-> filter_model]

KeptAnalysed == Returned /\ ~IsError(result) /\ ~Falsy(filter_model)

\* C26 as stated: the filter with a non-empty slug returns, in input order,
\* exactly the conversations of which some node holds an assistant message
\* of that slug, and every conversation it keeps has such a message on its
\* linearized thread, so that its detailed analysis has a TurnRecord
\* labelled with the slug; with an empty or absent slug the input is
\* returned unchanged.
C26_FilterByModel ==
    /\ FilterExact
    /\ KeptAnalysed => ThreadUsesModel

AllMessagesOnThread ==
    MessageNodes(mapping) = Range(ordered_message_ids)

\* C26 amended: the filter is exact as stated, and a conversation it keeps
\* has an assistant message of the slug on its thread whenever every
\* message-bearing node of its mapping is on that thread.
C26_FilterByModelAmended ==
    /\ FilterExact
    /\ KeptAnalysed /\ AllMessagesOnThread => ThreadUsesModel

\* Of three conversations the filter by o3 has kept the first and the
\* third, dropping one whose user message carries the slug, and the
\* detailed analysis of the third has its TurnRecord of o3.
C26_Witness ==
    /\ filter_model = "o3"
    /\ Len(conversations_data) = 3
    /\ Len(filtered_convs) = 2
    /\ filtered_convs[1].id = "c1" /\ filtered_convs[2].id = "c3"
    /\ \E n \in MessageNodes(conversations_data[2].mapping) :
          MessageOf(conversations_data[2].mapping, n).model_slug = "o3"
    /\ Len(all_analysis_results) = 1
    /\ ReturnedDetailed
    /\ AllMessagesOnThread
    /\ ThreadUsesModel

\* With an empty slug every conversation is kept and analysed.
C26_WitnessNoFilter ==
    /\ filter_model = ""
    /\ Reported
    /\ Len(all_analysis_results) = Len(conversations_data)
    /\ \E k \in DOMAIN conversations_data :
          ~UsesModel(conversations_data[k], "o3")

(***************************************************************************)
(* C27: in simple mode a message whose role is none of user, assistant and *)
(* system adds to no token total: the input and output totals together are *)
(* the sum over the user, system and assistant messages, while             *)
(* message_count counts every message of the sequence.                     *)
(***************************************************************************)
SimpleRoles == {"user", "assistant", "system"}

OtherRolePositions ==
    {k \in DOMAIN ordered_message_ids : MsgAt(k).role \notin SimpleRoles}

C27_OtherRolesUncounted ==
    ReturnedSimple =>
        /\ result.simple_total_input_tokens + result.simple_total_output_tokens
             = SeqSum([k \in DOMAIN ordered_message_ids |->
                          IF MsgAt(k).role \in SimpleRoles
                          THEN ExtractTokens(MsgAt(k),
                                             MsgAt(k).role = "assistant")
                          ELSE 0])
        /\ result.simple_total_user_tokens + result.simple_total_system_tokens
             = result.simple_total_input_tokens
        /\ result.simple_total_assistant_tokens
             = result.simple_total_output_tokens
        /\ result.message_count = Len(ordered_message_ids)

\* A tool message with text stands between a user and an assistant
\* message: it is counted as a message and adds no tokens.
C27_Witness ==
    /\ ReturnedSimple
    /\ result.message_count = 3
    /\ Cardinality(OtherRolePositions) = 1
    /\ \E k \in OtherRolePositions : ExtractTokens(MsgAt(k), FALSE) > 0
    /\ result.simple_total_input_tokens > 0
    /\ result.simple_total_output_tokens > 0

(***************************************************************************)
(* C28: at every step of the detailed walk and in its result the totals    *)
(* are the sums over the TurnRecords made so far: the input tokens, the    *)
(* output tokens and the cost, where the cost of each TurnRecord is its    *)
(* input cost plus its output cost; and assistant_messages_count is the    *)
(* number of TurnRecords.                                                  *)
(***************************************************************************)
TurnSum(turns, field) == SeqSum([k \in DOMAIN turns |-> turns[k][field]])

C28_TotalsAreTurnSums ==
    /\ InDetailed =>
          /\ conversation_total_input_tokens
                = TurnSum(processed_turns, "input_tokens")
          /\ conversation_total_output_tokens
                = TurnSum(processed_turns, "output_tokens")
          /\ conversation_total_cost
                = TurnSum(processed_turns, "turn_total_cost")
          /\ \A k \in DOMAIN processed_turns :
                processed_turns[k].turn_total_cost
                  = processed_turns[k].input_cost
                    + processed_turns[k].output_cost
          /\ assistant_message_count_in_convo = Len(processed_turns)
    /\ ReturnedDetailed =>
          /\ result.total_input_tokens_across_turns
                = TurnSum(result.turns_details, "input_tokens")
          /\ result.total_output_tokens_for_all_assistant_msgs
                = TurnSum(result.turns_details, "output_tokens")
          /\ result.total_cost
                = TurnSum(result.turns_details, "turn_total_cost")
          /\ result.assistant_messages_count = Len(result.turns_details)

\* A result with two TurnRecords, each with input and output cost.
C28_Witness ==
    /\ ReturnedDetailed
    /\ Len(result.turns_details) = 2
    /\ \A k \in 1..2 : /\ result.turns_details[k].input_cost > 0
                        /\ result.turns_details[k].output_cost > 0
    /\ result.total_cost
          > result.turns_details[1].output_cost
            + result.turns_details[2].output_cost

(***************************************************************************)
(* C29: the turn_index of a TurnRecord is the number of end_turn messages  *)
(* strictly before its message; it never decreases along the records, lies *)
(* between 0 and real_turns_count, and is at most real_turns_count - 1 on  *)
(* a record whose message ends a turn; two records share a turn_index      *)
(* exactly when no end_turn message lies from the earlier one (included)   *)
(* up to the later one (excluded).                                         *)
(***************************************************************************)
RecordPosition(k) == AssistantPositions(i)[k]

EndTurnsBetween(p, q) == {n \in p..(q - 1) : MsgAt(n).end_turn = TRUE}

C29_TurnIndex ==
    InDetailed =>
        \A k \in DOMAIN processed_turns :
            LET turn == processed_turns[k] IN
            /\ turn.turn_index
                  = Cardinality(EndTurnPositions(RecordPosition(k) - 1))
            /\ 0 <= turn.turn_index /\ turn.turn_index <= real_turns_count
            /\ turn.is_turn_end => turn.turn_index <= real_turns_count - 1
            /\ \A j \in 1..(k - 1) :
                  /\ processed_turns[j].turn_index <= turn.turn_index
                  /\ processed_turns[j].turn_index = turn.turn_index
                        <=> EndTurnsBetween(RecordPosition(j),
                                            RecordPosition(k)) = {}

\* Three records: the first two in turn 0, the first of them not ending a
\* turn, and the third, which ends the last turn, in turn 1.
C29_Witness ==
    /\ ReturnedDetailed
    /\ Len(processed_turns) = 3
    /\ processed_turns[1].turn_index = 0 /\ ~processed_turns[1].is_turn_end
    /\ processed_turns[2].turn_index = 0 /\ processed_turns[2].is_turn_end
    /\ processed_turns[3].turn_index = 1 /\ processed_turns[3].is_turn_end
    /\ real_turns_count = 2

\* A user message ends the first turn: the record after it is in turn 1.
C29_WitnessUserEndsTurn ==
    /\ ReturnedDetailed
    /\ Len(processed_turns) = 1
    /\ processed_turns[1].turn_index = 1
    /\ MsgAt(1).role = "user"

(***************************************************************************)
(* C30: in every result without error message_count is the length of the  *)
(* linearized sequence and at least 1, the same in simple and in detailed  *)
(* mode; in detailed mode it is at least assistant_messages_count and      *)
(* equal to the number of history entries recorded.                        *)
(***************************************************************************)
RECURSIVE WalkFrom(_, _, _, _, _)
\* The sequence the walk returns from current on, computed from the
\* mapping alone; fuel bounds the number of iterations.
WalkFrom(m, current, ordered, visited, fuel) ==
    IF \/ fuel = 0
       \/ current \notin Keys(m)
       \/ m[current].children = <<>>
       \/ m[current].children[1] \in visited
    THEN ordered
    ELSE LET next == m[current].children[1] IN
         WalkFrom(m, next,
                  IF HasMessage(m, next) THEN Append(ordered, next)
                  ELSE ordered,
                  visited \cup {next}, fuel - 1)

\* The linearized sequence of a mapping whose root is root: a function of
\* the two, whatever the mode of the analysis.
LinearizedFrom(m, root) ==
    LET start == StartNode(m, root)
        first == IF HasMessage(m, start) THEN <<start>> ELSE <<>>
    IN IF start = None THEN <<>>
       ELSE WalkFrom(m, start, first,
                     IF root = CCR /\ HasMessage(m, start)
                     THEN {start} ELSE {},
                     Cardinality(Keys(m)) + 2)

C30_MessageCount ==
    (Returned /\ ~IsError(result) /\ "raised" \notin DOMAIN result) =>
        /\ result.message_count = Len(ordered_message_ids)
        /\ result.message_count = Len(LinearizedFrom(mapping, root_id))
        /\ result.message_count >= 1
        /\ result.mode = "detailed" =>
              /\ result.message_count >= result.assistant_messages_count
              /\ result.message_count = Len(history_for_inputs)

\* A detailed result of three messages, one of them of the assistant.
C30_Witness ==
    /\ ReturnedDetailed
    /\ result.message_count = 3
    /\ result.assistant_messages_count = 1
    /\ Len(history_for_inputs) = 3

\* A simple result of two messages on a mapping with a message that is
\* not on the thread.
C30_WitnessSimple ==
    /\ ReturnedSimple
    /\ result.message_count = 2
    /\ MessageNodes(mapping) \ Range(ordered_message_ids) # {}

(***************************************************************************)
(* C22: the report is a commutative reduction of the results: under every  *)
(* permutation of the list of results the report has the same summary      *)
(* totals, the same totals per model in model_breakdown and the same       *)
(* totals per day in temporal_analysis.                                    *)
(***************************************************************************)
OrdersOf(n) ==
    {p \in [1..n -> 1..n] : \A j, k \in 1..n : j # k => p[j] # p[k]}

Permuted(results, p) == [k \in DOMAIN results |-> results[p[k]]]

\* The reports of all the orders of the results.
PermutedReports ==
    {generate_comprehensive_report(Permuted(all_analysis_results, p), mode) :
        p \in OrdersOf(Len(all_analysis_results))}

\* The totals that are sums of floats: the output tokens, to which a
\* thought adds 1.2 tokens, the costs, and the sums with one of them.
FloatTotals ==
    {"total_output_tokens", "total_assistant_tokens", "total_tokens",
     "total_input_cost", "total_output_cost", "total_cost"}

\* The totals that are sums of integers.
IntegerTotals ==
    {"total_input_tokens", "total_user_tokens", "total_system_tokens",
     "total_turns", "total_assistant_messages", "message_count",
     "conversation_count"}

TotalsOf(stats, fields) == [f \in DOMAIN stats \cap fields |-> stats[f]]

\* The same keys, and under each key the same totals among fields.
SameTotals(a, b, fields) ==
    /\ DOMAIN a = DOMAIN b
    /\ \A key \in DOMAIN a :
          TotalsOf(a[key], fields) = TotalsOf(b[key], fields)

SameTotalsIn(r, fields) ==
    /\ TotalsOf(r.summary, fields) = TotalsOf(report.summary, fields)
    /\ SameTotals(r.model_breakdown, report.model_breakdown, fields)
    /\ SameTotals(r.temporal_analysis, report.temporal_analysis, fields)

C22_ReportCommutative ==
    Reported =>
        \A r \in PermutedReports :
            SameTotalsIn(r, IntegerTotals \cup FloatTotals)

\* The number of additions behind a total is at most the number of turns
\* and of results, and one more for total_tokens.
Additions ==
    Len(AllTurns(Valid, Len(Valid))) + Len(all_analysis_results) + 1

\* Two floats that differ by no more than the rounding of the additions.
Close(x, y) ==
    LET hi == IF x > y THEN x ELSE y
        lo == IF x > y THEN y ELSE x
    IN hi - lo <= Additions * Quantum(hi)

CloseTotals(a, b) ==
    \A key \in DOMAIN a \cap DOMAIN b :
        \A f \in DOMAIN a[key] \cap FloatTotals : Close(a[key][f], b[key][f])

\* C22 amended: under every permutation of the results the report has the
\* same models and days and the same integer totals (turns, messages,
\* conversations, input tokens) in the summary, per model and per day;
\* its float totals (output tokens, costs, total_tokens) are the same up
\* to the rounding of the additions.
C22_ReportCommutativeAmended ==
    Reported =>
        \A r \in PermutedReports :
            /\ SameTotalsIn(r, IntegerTotals)
            /\ \A f \in DOMAIN report.summary \cap FloatTotals :
                  Close(r.summary[f], report.summary[f])
            /\ CloseTotals(r.model_breakdown, report.model_breakdown)
            /\ CloseTotals(r.temporal_analysis, report.temporal_analysis)

\* Every float the report adds up is a float: rounding leaves it as it is.
Representable(x) == Round(x) = x

ResultsAreFloats ==
    \A k \in DOMAIN Valid :
        /\ \A f \in DOMAIN Valid[k] \cap
                     {"total_cost", "total_output_tokens_for_all_assistant_msgs",
                      "simple_total_cost", "simple_input_cost",
                      "simple_output_cost", "simple_total_output_tokens"} :
              Representable(Valid[k][f])
        /\ "turns_details" \in DOMAIN Valid[k] =>
              \A t \in DOMAIN Valid[k].turns_details :
                  /\ Representable(Valid[k].turns_details[t].turn_total_cost)
                  /\ Representable(Valid[k].turns_details[t].output_tokens)

\* A report over three valid results of two models on two days, whose
\* total cost in another order of the results is another float, while the
\* total of the day of two of them is the same.
C22_Witness ==
    /\ Reported
    /\ Len(Valid) = 3
    /\ ResultsAreFloats
    /\ Cardinality(DOMAIN report.model_breakdown) = 2
    /\ Cardinality(DOMAIN report.temporal_analysis) = 2
    /\ \E r \in PermutedReports :
          /\ r.summary.total_cost # report.summary.total_cost
          /\ r.summary.total_turns = report.summary.total_turns
          /\ \E day \in DOMAIN report.temporal_analysis :
                /\ report.temporal_analysis[day].conversation_count = 2
                /\ r.temporal_analysis[day].total_cost
                     = report.temporal_analysis[day].total_cost

\* Three results of one day, with an error result among the four of the
\* batch or not: the total of the day depends on their order.
C22_WitnessDay ==
    /\ Reported
    /\ Len(Valid) = 3
    /\ ResultsAreFloats
    /\ \E r \in PermutedReports :
          \E day \in DOMAIN report.temporal_analysis :
              /\ report.temporal_analysis[day].conversation_count = 3
              /\ r.temporal_analysis[day].total_cost
                   # report.temporal_analysis[day].total_cost
====
